---- MODULE Spec2Model ----
(***************************************************************************)
(* Status synchronisation engine of mamalluca: the reconnecting Moonraker  *)
(* websocket session (src/moonraker/client.rs), the update handler that    *)
(* bootstraps and patches the status cache (src/moonraker/handler.rs), the *)
(* topic grammar of the cache keys and the periodic export of the cache    *)
(* as run spawns it (src/main.rs).                                         *)
(*                                                                         *)
(* Text: a string is a sequence of chunks; the chunk " " is one run of     *)
(* whitespace, every other chunk is a run of non-whitespace characters.    *)
(* JSON: a value is a record tagged by t; an object is a function from     *)
(* member names to values, a number n stands for the decimal n/10.         *)
(***************************************************************************)
EXTENDS Integers, Sequences, FiniteSets, TLC

VARIABLES
    session,          \* ezsockets actor: "down" (connecting), "up", "closed" (ended)
    calls,            \* commands sent with connection.call, not yet run by on_call
    wire,             \* requests the peer holds on the current socket
    requests,         \* MoonrakerClientState.requests: id -> oneshot sender
    next_id,          \* MoonrakerClientState.next_id
    updates,          \* mpsc channel Client.updates -> UpdateHandler.updates
    pc,               \* where UpdateHandler::process is suspended
    oneshot,          \* the oneshot channel the consumer awaits
    initialized,      \* UpdateHandler.initialized
    current_status,   \* UpdateHandler.current_status
    notification,     \* process: the notification received last
    listed,           \* get_object_list: the response it received
    exporter,         \* the periodic metrics update task
    joined,           \* run: the task set.join_next() yielded, "None" before
    cloned,           \* export: the copy of the cache it takes, shard by shard
    todo,             \* process_status_update: the members its loop has yet to merge
    guards,           \* locks held on the cache: entry guards, shard read locks
    sending,          \* the notification a send().await of the session actor holds
    probe             \* topic conversion under test (parse / render)

vars == <<session, calls, wire, requests, next_id, updates, pc, oneshot,
          initialized, current_status, notification, listed, exporter, joined,
          cloned, todo, guards, sending, probe>>

-----------------------------------------------------------------------------
(* JSON values (serde_json::Value)                                         *)

JNull == [t |-> "null", v |-> 0]
JNum(n) == [t |-> "num", v |-> n]
JBool(b) == [t |-> "bool", v |-> b]
JArr(s) == [t |-> "arr", v |-> s]
JObj(f) == [t |-> "obj", v |-> f]
\* the object of a status update: its members in the order the map yields them
JMembers(pairs) == [t |-> "obj", members |-> pairs]

NoMembers == [k \in {} |-> JNull]
EmptyObject == JObj(NoMembers)

Field(name, value) == [k \in {name} |-> value]

-----------------------------------------------------------------------------
(* Status keys (enum StatusData) and the topic grammar                     *)

WS == " "

\* wire name of every variant that carries an instance name and has a default
DefaultNamed == {"mcu", "extruder", "heater_bed"}
\* wire name of every variant that requires an instance name
RequiredNamed == {"temperature_sensor", "controller_fan", "tmc2130", "tmc2208",
                  "tmc2209", "tmc2240", "tmc2660", "tmc5160", "fan_generic",
                  "heater_fan", "filament_motion_sensor", "filament_switch_sensor"}
\* wire name of every variant without payload that the parser accepts
UnitKinds == {"webhooks", "stepper_enable", "z_thermal_adjust", "pause_resume",
              "probe", "z_tilt", "motion_report", "exclude_object", "toolhead",
              "gcode_move", "print_stats", "virtual_sdcard"}

StatusData ==
    [mcu |-> "Mcu", extruder |-> "Extruder", heater_bed |-> "HeaterBed",
     temperature_sensor |-> "TemperatureSensor", controller_fan |-> "ControllerFan",
     tmc2130 |-> "TMC2130", tmc2208 |-> "TMC2208", tmc2209 |-> "TMC2209",
     tmc2240 |-> "TMC2240", tmc2660 |-> "TMC2660", tmc5160 |-> "TMC5160",
     fan_generic |-> "FanGeneric", heater_fan |-> "HeaterFan",
     filament_motion_sensor |-> "FilamentMotionSensor",
     filament_switch_sensor |-> "FilamentSwitchSensor",
     webhooks |-> "Webhooks", stepper_enable |-> "StepperEnable",
     z_thermal_adjust |-> "ZThermalAdjust", pause_resume |-> "PauseResume",
     probe |-> "Probe", z_tilt |-> "ZTilt", motion_report |-> "MotionReport",
     exclude_object |-> "ExcludeObject", toolhead |-> "Toolhead",
     gcode_move |-> "GCodeMove", print_stats |-> "PrintStats",
     virtual_sdcard |-> "VirtualSdCard", fan |-> "Fan", moonraker |-> "MoonrakerStatus"]

MoonrakerStatus == <<"MoonrakerStatus">>

Ok(val) == [ok |-> TRUE, val |-> val]
Err(val) == [ok |-> FALSE, val |-> val]

IsWord(c) == c # WS
split_whitespace(value) == SelectSeq(value, IsWord)

\* slip: the arm ("mcu", Some(name)) is missing, a named mcu is unknown
try_from_bare_mcu(value) ==
    LET parts == split_whitespace(value)
    IN  IF Len(parts) = 0 THEN Err(value)
        ELSE LET kind == parts[1]
                 named == Len(parts) >= 2
             IN  CASE kind = "mcu" ->
                          IF named THEN Err(value) ELSE Ok(<<"Mcu", "mcu">>)
                   [] kind \in DefaultNamed ->
                          Ok(<<StatusData[kind], IF named THEN parts[2] ELSE kind>>)
                   [] kind \in RequiredNamed ->
                          IF named THEN Ok(<<StatusData[kind], parts[2]>>) ELSE Err(value)
                   [] kind \in UnitKinds -> Ok(<<StatusData[kind]>>)
                   [] kind = "fan" -> Ok(<<"Fan", "fan">>)
                   [] OTHER -> Err(value)

\* slip: a kind that requires an instance name gets its own name as default
try_from_defaults(value) ==
    LET parts == split_whitespace(value)
    IN  IF Len(parts) = 0 THEN Err(value)
        ELSE LET kind == parts[1]
                 named == Len(parts) >= 2
             IN  CASE kind \in DefaultNamed \cup RequiredNamed ->
                          Ok(<<StatusData[kind], IF named THEN parts[2] ELSE kind>>)
                   [] kind \in UnitKinds -> Ok(<<StatusData[kind]>>)
                   [] kind = "fan" -> Ok(<<"Fan", "fan">>)
                   [] OTHER -> Err(value)

\* impl TryFrom<&str> for StatusData
try_from(value) ==
    LET parts == split_whitespace(value)
    IN  IF Len(parts) = 0 THEN Err(value)
        ELSE LET kind == parts[1]
                 named == Len(parts) >= 2
             IN  CASE kind \in DefaultNamed ->
                          Ok(<<StatusData[kind], IF named THEN parts[2] ELSE kind>>)
                   [] kind \in RequiredNamed ->
                          IF named THEN Ok(<<StatusData[kind], parts[2]>>) ELSE Err(value)
                   [] kind \in UnitKinds -> Ok(<<StatusData[kind]>>)
                   [] kind = "fan" -> Ok(<<"Fan", "fan">>)
                   [] OTHER -> Err(value)

WireName(variant) == CHOOSE w \in DOMAIN StatusData : StatusData[w] = variant

\* impl From<StatusData> for String
into_string(key) ==
    LET w == WireName(key[1])
    IN  CASE w \in {"mcu", "heater_bed"} ->
                 IF key[2] = w THEN <<w>> ELSE <<w, WS, key[2]>>
          [] w = "extruder" ->
                 IF key[2] = "extruder" THEN <<"extruder">>
                 ELSE <<"extruderÃ", WS, key[2]>>
          [] w \in RequiredNamed -> <<w, WS, key[2]>>
          [] OTHER -> <<w>>

-----------------------------------------------------------------------------
(* Merge patch (json_patch::merge) and the status update loop              *)

\* slip: a null member of the patch is stored instead of removing the member
RECURSIVE merge_stores_null(_, _)
merge_stores_null(doc, patch) ==
    IF patch.t # "obj" THEN patch
    ELSE LET map == IF doc.t = "obj" THEN doc.v ELSE NoMembers
             p == patch.v
         IN  JObj([k \in DOMAIN map \cup DOMAIN p |->
                     IF k \in DOMAIN p
                     THEN merge_stores_null(IF k \in DOMAIN map THEN map[k] ELSE JNull, p[k])
                     ELSE map[k]])

\* slip: an array of the patch is appended to the array it should replace
RECURSIVE merge_appends(_, _)
merge_appends(doc, patch) ==
    IF patch.t = "arr" /\ doc.t = "arr" THEN JArr(doc.v \o patch.v)
    ELSE IF patch.t # "obj" THEN patch
    ELSE LET map == IF doc.t = "obj" THEN doc.v ELSE NoMembers
             p == patch.v
             removed == {k \in DOMAIN p : p[k].t = "null"}
             merged == DOMAIN p \ removed
         IN  JObj([k \in (DOMAIN map \ removed) \cup merged |->
                     IF k \in merged
                     THEN merge_appends(IF k \in DOMAIN map THEN map[k] ELSE JNull, p[k])
                     ELSE map[k]])

\* slip: a member the document already has is kept, the patch only adds
RECURSIVE merge_keeps(_, _)
merge_keeps(doc, patch) ==
    IF patch.t # "obj" THEN patch
    ELSE LET map == IF doc.t = "obj" THEN doc.v ELSE NoMembers
             p == patch.v
             removed == {k \in DOMAIN p : p[k].t = "null"}
             merged == DOMAIN p \ removed
         IN  JObj([k \in (DOMAIN map \ removed) \cup merged |->
                     IF k \in merged /\ k \notin DOMAIN map
                     THEN merge_keeps(JNull, p[k])
                     ELSE map[k]])

RECURSIVE merge(_, _)
merge(doc, patch) ==
    IF patch.t # "obj" THEN patch
    ELSE LET map == IF doc.t = "obj" THEN doc.v ELSE NoMembers
             p == patch.v
             removed == {k \in DOMAIN p : p[k].t = "null"}
             merged == DOMAIN p \ removed
         IN  JObj([k \in (DOMAIN map \ removed) \cup merged |->
                     IF k \in merged
                     THEN merge(IF k \in DOMAIN map THEN map[k] ELSE JNull, p[k])
                     ELSE map[k]])

\* slip: the patch is inserted as the entry instead of being merged into it
merge_entry_inserts(status, kind, patch) ==
    [k \in DOMAIN status \cup {kind} |-> IF k = kind THEN patch ELSE status[k]]

\* self.current_status.entry(kind).or_insert(json!({})) followed by the merge
merge_entry(status, kind, patch) ==
    LET entry == IF kind \in DOMAIN status THEN status[kind] ELSE EmptyObject
    IN  [k \in DOMAIN status \cup {kind} |->
            IF k = kind THEN merge(entry, patch) ELSE status[k]]

\* the loop over the members of one update object
RECURSIVE merge_members(_, _)
merge_members(status, members) ==
    IF members = <<>> THEN Ok(status)
    ELSE LET kind == try_from(members[1][1])
         IN  IF ~kind.ok THEN Err(status)
             ELSE merge_members(merge_entry(status, kind.val, members[1][2]),
                                Tail(members))

\* the loop over the elements of the payload array
RECURSIVE merge_updates(_, _)
merge_updates(status, elements) ==
    IF elements = <<>> THEN Ok(status)
    ELSE IF Head(elements).t = "obj"
         THEN LET r == merge_members(status, Head(elements).members)
              IN  IF r.ok THEN merge_updates(r.val, Tail(elements)) ELSE r
         ELSE merge_updates(status, Tail(elements))

\* slip: a payload that is no array is taken as the one status object
process_status_update_wraps(status, payload) ==
    IF payload.t # "arr" THEN merge_updates(status, <<payload>>)
    ELSE merge_updates(status, payload.v)

\* UpdateHandler::process_status_update: the result and the cache it leaves
process_status_update(status, payload) ==
    IF payload.t # "arr" THEN Err(status)
    ELSE merge_updates(status, payload.v)

-----------------------------------------------------------------------------
(* Bounds of the explored behaviours                                       *)

\* the socket closes only while fewer than MaxId calls have been numbered
MaxId == 4
\* the socket closes only while fewer Disconnected events than this are queued
MaxQueuedCloses == 1
\* the peer pushes a notification only while fewer than this are queued
MaxQueuedNotifications == 1

\* tokio::sync::mpsc::channel(100)
ChannelCapacity == 100

-----------------------------------------------------------------------------
(* Events, commands, frames                                                *)

JStr(s) == [t |-> "str", v |-> s]

\* enum MoonrakerStatusNotification
Notification(type, payload) == [type |-> type, payload |-> payload]
MoonrakerConnected == Notification("MoonrakerConnected", JNull)
MoonrakerDisconnected == Notification("MoonrakerDisconnected", JNull)
KlippyReady == Notification("KlippyReady", JNull)
KlippyShutdown == Notification("KlippyShutdown", JNull)
KlippyDisconnected == Notification("KlippyDisconnected", JNull)
KlipperStatusData(payload) == Notification("KlipperStatusData", payload)
MoonrakerStatusData(payload) == Notification("MoonrakerStatusData", payload)

Queued(type) == Cardinality({i \in 1..Len(updates) : updates[i].type = type})
QueuedNotifications == Len(updates) - Queued("MoonrakerConnected")
                                    - Queued("MoonrakerDisconnected")

\* enum MoonrakerCommands; tx is the number of the oneshot channel
GetObjectList(tx) == [cmd |-> "GetObjectList", tx |-> tx, objects |-> <<>>]
Subscribe(tx, objects) == [cmd |-> "Subscribe", tx |-> tx, objects |-> objects]

\* a response frame {id, result?}; an error response has no result members
NoResult == [k \in {} |-> JNull]
Response(id, result) == [id |-> id, result |-> result]
\* no response received
NoResponse == Response(-1, NoResult)
\* a notification frame {method, params}
NotificationFrame(method, params) == [method |-> method, params |-> params]

\* oneshot::channel(): the consumer's receiver, value is what was sent
Idle == [chan |-> -1, full |-> FALSE, value |-> Response(-1, NoResult)]
build_channel == [chan |-> next_id + Len(calls), full |-> FALSE,
                  value |-> Response(-1, NoResult)]

Range(s) == {s[i] : i \in 1..Len(s)}

-----------------------------------------------------------------------------
(* What the peer (Moonraker) sends                                         *)

Extruder == <<"Extruder", "extruder">>
HeaterBed == <<"HeaterBed", "heater_bed">>

Temperature(n) == JObj(Field("temperature", JNum(n)))
\* every field HeaterBedStats requires
HeaterBedFields(power, target, temperature) ==
    JObj(Field("power", JNum(power)) @@ Field("target", JNum(target))
         @@ Field("temperature", JNum(temperature)))
\* every field ExtruderStats requires, the optional one reported as null
ExtruderFields(target, temperature) ==
    JObj(Field("can_extrude", JBool(TRUE)) @@ Field("power", JNum(0))
         @@ Field("pressure_advance", JNum(0)) @@ Field("smooth_time", JNum(0))
         @@ Field("target", JNum(target)) @@ Field("temperature", JNum(temperature))
         @@ Field("time_offset", JNull))

\* results of printer.objects.list
ObjectLists == {
    <<<<"extruder">>, <<"mcu", WS, "bogus_unknown_subsystem">>, <<"heater_bed">>>>,
    <<<<"bogus_unknown_subsystem">>, <<"heater_bed">>>>,
    <<<<"extruder", WS, "extruder1">>, <<"heater_bed">>>> }
ListResults == {[k \in {"objects"} |-> l] : l \in ObjectLists} \cup {NoResult}

\* results of printer.objects.subscribe
PartialSnapshot ==
    JMembers(<< <<<<"extruder">>, Temperature(2001)>>,
                <<<<"heater_bed">>, Temperature(600)>> >>)
FullSnapshot ==
    JMembers(<< <<<<"heater_bed">>, HeaterBedFields(0, 650, 600)>>,
                <<<<"extruder">>, ExtruderFields(2100, 2001)>> >>)
\* a snapshot with a key that does not parse after one that does
BrokenSnapshot ==
    JMembers(<< <<<<"extruder">>, Temperature(2001)>>,
                <<<<"bogus_unknown_subsystem">>, Temperature(300)>>,
                <<<<"heater_bed">>, Temperature(600)>> >>)
Snapshots == {PartialSnapshot, FullSnapshot, BrokenSnapshot}
SubscribeResults == {[k \in {"status"} |-> s] : s \in Snapshots} \cup {NoResult}
\* the result of a subscription to no object at all
EmptySnapshot == JMembers(<<>>)

\* what the peer may answer to request r: a result or an error
ResultsFor(r) ==
    CASE r.method = "printer.objects.list" -> ListResults
      [] r.objects = {} -> {Field("status", EmptySnapshot), NoResult}
      [] OTHER -> SubscribeResults

\* the members of one status object listed in the order of the positions in order
Members(members, order) == [i \in 1..Len(order) |-> members[order[i]]]

\* a status object with two known topics and one unknown topic
MixedMembers ==
    << <<<<"extruder">>, JObj(Field("target", JNum(2100)))>>,
       <<<<"bogus_unknown_subsystem">>, Temperature(300)>>,
       <<<<"heater_bed">>, JObj(Field("target", JNull))>> >>

\* params of notify_status_update that are no array: the status object alone
BareStatus == JMembers(<< <<<<"heater_bed">>, Temperature(610)>> >>)

\* params of notify_status_update: [status, eventtime], or malformed ones
StatusPayloads ==
    { JArr(<<JMembers(<< <<<<"extruder">>, Temperature(2053)>> >>), JNum(1)>>) }
    \cup { BareStatus }
    \cup { JArr(<<JMembers(Members(MixedMembers, order)), JNum(2)>>) :
             order \in {<<2, 1, 3>>, <<1, 2, 3>>, <<1, 3, 2>>} }

\* params of notify_proc_stat_update
ProcStatPayloads == { JArr(<<JObj(Field("cpu_temp", JNum(451)))>>) }

NotificationFrames ==
    {NotificationFrame(JStr("notify_status_update"), p) : p \in StatusPayloads}
    \cup {NotificationFrame(JStr("notify_proc_stat_update"), p) : p \in ProcStatPayloads}
    \cup {NotificationFrame(JStr(m), JArr(<<>>)) :
            m \in {"notify_klippy_ready", "notify_klippy_shutdown",
                   "notify_klippy_disconnected", "notify_sensor_update"}}
    \cup {NotificationFrame(JNum(1), JArr(<<>>))}

-----------------------------------------------------------------------------
(* Transport session (impl ClientExt for Client)                           *)

send(event) ==
    /\ Len(updates) < ChannelCapacity
    /\ updates' = Append(updates, event)

\* slip: every connection numbers its calls from 0 again
on_connect_resets ==
    /\ session = "down"
    /\ send(MoonrakerConnected)
    /\ session' = "up"
    /\ next_id' = 0
    /\ UNCHANGED <<calls, wire, requests, pc, oneshot, initialized,
                   current_status, probe, listed, exporter, joined, cloned, notification, todo, guards, sending>>

on_connect ==
    /\ session = "down"
    /\ send(MoonrakerConnected)
    /\ session' = "up"
    /\ UNCHANGED <<calls, wire, requests, next_id, pc, oneshot, initialized,
                   current_status, probe, listed, exporter, joined, cloned, notification, todo, guards, sending>>

MayClose == next_id < MaxId /\ Queued("MoonrakerDisconnected") < MaxQueuedCloses

\* slip: the handler returns ClientCloseMode::Close, the session ends
on_close_closes ==
    /\ session = "up"
    /\ MayClose
    /\ send(MoonrakerDisconnected)
    /\ session' = "closed"
    /\ wire' = {}
    /\ UNCHANGED <<calls, requests, next_id, pc, oneshot, initialized,
                   current_status, probe, listed, exporter, joined, cloned, notification, todo, guards, sending>>

\* the server closes the connection; ClientCloseMode::Reconnect
on_close ==
    /\ session = "up"
    /\ MayClose
    /\ send(MoonrakerDisconnected)
    /\ session' = "down"
    /\ wire' = {}
    /\ UNCHANGED <<calls, requests, next_id, pc, oneshot, initialized,
                   current_status, probe, listed, exporter, joined, cloned, notification, todo, guards, sending>>

\* the socket dies; ClientCloseMode::Reconnect
on_disconnect ==
    /\ session = "up"
    /\ MayClose
    /\ send(MoonrakerDisconnected)
    /\ session' = "down"
    /\ wire' = {}
    /\ UNCHANGED <<calls, requests, next_id, pc, oneshot, initialized,
                   current_status, probe, listed, exporter, joined, cloned, notification, todo, guards, sending>>

Method(call) == IF call.cmd = "GetObjectList" THEN "printer.objects.list"
                ELSE "printer.objects.subscribe"

on_call ==
    /\ session = "up"
    /\ calls # <<>>
    /\ LET call == Head(calls)
           id == next_id
       IN  /\ next_id' = next_id + 1
           /\ requests' = [i \in DOMAIN requests \cup {id} |->
                             IF i = id THEN call.tx ELSE requests[i]]
           /\ wire' = wire \cup {[id |-> id, method |-> Method(call),
                                  objects |-> Range(call.objects),
                                  wanted |-> [o \in Range(call.objects) |-> JNull]]}
    /\ calls' = Tail(calls)
    /\ UNCHANGED <<session, updates, pc, oneshot, initialized, current_status, probe,
                   listed, exporter, joined, cloned, notification, todo, guards, sending>>

\* slip: the response goes to a pending call whatever id it carries
process_call_response_any(response) ==
    /\ IF DOMAIN requests # {}
       THEN LET id == CHOOSE i \in DOMAIN requests : TRUE
            IN  /\ requests' = [i \in DOMAIN requests \ {id} |-> requests[i]]
                /\ IF oneshot.chan = requests[id]
                   THEN oneshot' = [oneshot EXCEPT !.full = TRUE, !.value = response]
                   ELSE UNCHANGED oneshot
       ELSE UNCHANGED <<requests, oneshot>>
    /\ UNCHANGED updates

\* slip: the response is delivered and its entry stays in the table
process_call_response_keeps(response) ==
    /\ IF "id" \in DOMAIN response /\ response.id \in DOMAIN requests
       THEN /\ requests' = requests
            /\ IF oneshot.chan = requests[response.id]
               THEN oneshot' = [oneshot EXCEPT !.full = TRUE, !.value = response]
               ELSE UNCHANGED oneshot
       ELSE UNCHANGED <<requests, oneshot>>
    /\ UNCHANGED updates

\* Client::process_call_response; a frame without an integer id is one
\* without id or with the id -1
process_call_response(response) ==
    /\ IF "id" \in DOMAIN response /\ response.id \in DOMAIN requests
       THEN /\ requests' = [i \in DOMAIN requests \ {response.id} |-> requests[i]]
            /\ IF oneshot.chan = requests[response.id]
               THEN oneshot' = [oneshot EXCEPT !.full = TRUE, !.value = response]
               ELSE UNCHANGED oneshot
       ELSE UNCHANGED <<requests, oneshot>>
    /\ UNCHANGED updates

as_str(value) == IF value.t = "str" THEN value.v ELSE "None"

\* slip: a method the match does not know is forwarded as KlippyReady
notification_of_forwards(method, payload) ==
    LET m == as_str(method)
    IN  CASE m = "notify_proc_stat_update" -> <<MoonrakerStatusData(payload)>>
          [] m = "notify_status_update" -> <<KlipperStatusData(payload)>>
          [] m = "notify_klippy_ready" -> <<KlippyReady>>
          [] m = "notify_klippy_shutdown" -> <<KlippyShutdown>>
          [] m = "notify_klippy_disconnected" -> <<KlippyDisconnected>>
          [] OTHER -> <<KlippyReady>>

\* the match of Client::process_notification: the notification to forward, if any
notification_of(method, payload) ==
    LET m == as_str(method)
    IN  CASE m = "notify_proc_stat_update" -> <<MoonrakerStatusData(payload)>>
          [] m = "notify_status_update" -> <<KlipperStatusData(payload)>>
          [] m = "notify_klippy_ready" -> <<KlippyReady>>
          [] m = "notify_klippy_shutdown" -> <<KlippyShutdown>>
          [] m = "notify_klippy_disconnected" -> <<KlippyDisconnected>>
          [] OTHER -> <<>>

\* slip: a notification that carries the id of a pending call resolves it
process_notification_resolves(response) ==
    /\ LET payload == IF "params" \in DOMAIN response THEN response.params
                      ELSE EmptyObject
           forward == notification_of(response.method, payload)
       IN  IF forward # <<>>
           THEN send(forward[1])
           ELSE UNCHANGED updates
    /\ IF "id" \in DOMAIN response /\ response.id \in DOMAIN requests
       THEN requests' = [i \in DOMAIN requests \ {response.id} |-> requests[i]]
       ELSE UNCHANGED requests
    /\ UNCHANGED oneshot

\* Client::process_notification
process_notification(response) ==
    /\ LET payload == IF "params" \in DOMAIN response THEN response.params
                      ELSE EmptyObject
           forward == notification_of(response.method, payload)
       IN  IF forward # <<>>
           THEN send(forward[1])
           ELSE UNCHANGED updates
    /\ UNCHANGED <<requests, oneshot>>

\* a text frame that is not JSON
NotJson == [text |-> "not json"]
\* the JSON object {}
EmptyFrame == [k \in {} |-> JNull]

\* serde_json::from_str(&text): a frame of the model that is JSON is given
\* by the value it parses to
from_str(text) == IF "text" \in DOMAIN text THEN <<>> ELSE <<text>>

\* slip: a response that answers no pending call is an error of the handler
\* and ends the session
on_text_fails(text) ==
    /\ session = "up"
    /\ LET response == IF from_str(text) = <<>> THEN EmptyFrame ELSE from_str(text)[1]
       IN  /\ IF "method" \notin DOMAIN response
              THEN process_call_response(response)
              ELSE process_notification(response)
           /\ session' = IF /\ "method" \notin DOMAIN response
                            /\ ~("id" \in DOMAIN response /\ response.id \in DOMAIN requests)
                         THEN "closed" ELSE session
    /\ UNCHANGED <<calls, next_id, pc, initialized, current_status, probe,
                   listed, exporter, joined, cloned, notification, todo, guards, sending>>

on_text(text) ==
    /\ session = "up"
    /\ LET response == IF from_str(text) = <<>> THEN EmptyFrame ELSE from_str(text)[1]
       IN  IF "method" \notin DOMAIN response
           THEN process_call_response(response)
           ELSE process_notification(response)
    /\ UNCHANGED <<session, calls, next_id, pc, initialized, current_status, probe,
                   listed, exporter, joined, cloned, notification, todo, guards, sending>>

\* the peer answers a request it holds
PeerAnswers ==
    \E r \in wire : \E result \in ResultsFor(r) :
        /\ on_text(Response(r.id, result))
        /\ wire' = wire \ {r}

\* the peer answers a request it holds with a result, never with an error
PeerAnswersResult ==
    \E r \in wire : \E result \in ResultsFor(r) \ {NoResult} :
        /\ on_text(Response(r.id, result))
        /\ wire' = wire \ {r}

\* the peer sends a response frame that answers no pending call: a repeat of
\* an answer it gave, an id that was never handed out, or no integer id at
\* all (-1)
PeerRepeats ==
    \E id \in {-1, 0, next_id} :
        /\ id \notin DOMAIN requests
        /\ on_text(Response(id, Field("status", FullSnapshot)))
        /\ UNCHANGED wire

\* the peer pushes a notification
PeerNotifies ==
    \E frame \in NotificationFrames :
        /\ QueuedNotifications < MaxQueuedNotifications
        /\ on_text(frame)
        /\ UNCHANGED wire

\* a notification frame that also carries an id
IdNotificationFrame(id) ==
    [id |-> id, method |-> JStr("notify_klippy_ready"), params |-> JArr(<<>>)]

\* the peer sends a frame that is not JSON, or a notification frame that
\* carries the id of a pending call
PeerSendsOther ==
    \/ /\ on_text(NotJson)
       /\ UNCHANGED wire
    \/ \E id \in DOMAIN requests :
           /\ QueuedNotifications < MaxQueuedNotifications
           /\ on_text(IdNotificationFrame(id))
           /\ UNCHANGED wire

-----------------------------------------------------------------------------
(* Update handler (impl UpdateHandler)                                     *)

NoStatus == [k \in {} |-> JNull]

\* the entries of a cache under the given keys
Restrict(status, keys) == [k \in DOMAIN status \cap keys |-> status[k]]

\* no lock is held on the cache. entry: the keys whose entry guard (the write
\* lock of the shard) the consumer holds; shards: the keys of the shard whose
\* read lock the copy of export holds
NoGuards == [entry |-> {}, shards |-> {}]

\* no copy of the cache is being taken.  first: the keys of the shard the
\* copy visits first; map: the entries copied; contents: every content the
\* cache had from the start of the copy on
NotCloning == [busy |-> FALSE, first |-> {}, map |-> NoStatus, contents |-> {NoStatus}]

\* the contents the cache passes through in current_status.clear(): the
\* shards are emptied one after the other, in the order a copy visits them
clear_contents(status) == {Restrict(status, DOMAIN status \ cloned.first), NoStatus}

\* the contents the cache passes through in process_status_update: one
\* entry is merged after the other, each under the lock of its shard
merge_contents(status, payload) ==
    IF payload.t # "arr" \/ payload.v = <<>> \/ payload.v[1].t # "obj" THEN {status}
    ELSE {merge_members(status, SubSeq(payload.v[1].members, 1, i)).val :
            i \in 0..Len(payload.v[1].members)}

\* the contents written while a copy is being taken
Written(contents) ==
    cloned' = IF cloned.busy THEN [cloned EXCEPT !.contents = @ \cup contents]
              ELSE cloned

\* self.connection.call(command)
call(command) == calls' = Append(calls, command)

\* slip: recv yields the notification queued last
Received_last(type) ==
    /\ pc = "recv"
    /\ updates # <<>>
    /\ updates[Len(updates)].type = type
    /\ notification' = updates[Len(updates)]
    /\ updates' = SubSeq(updates, 1, Len(updates) - 1)

\* updates.recv() yields the notification at the head of the channel
Received(type) ==
    /\ pc = "recv"
    /\ updates # <<>>
    /\ Head(updates).type = type
    /\ notification' = Head(updates)
    /\ updates' = Tail(updates)

\* on_moonraker_connected up to the await in get_object_list
on_moonraker_connected ==
    /\ Received("MoonrakerConnected")
    /\ oneshot' = build_channel
    /\ call(GetObjectList(build_channel.chan))
    /\ pc' = "get_object_list"
    /\ UNCHANGED <<session, wire, requests, next_id, initialized, current_status, probe,
                   listed, exporter, joined, cloned, todo, guards, sending>>

\* slip: the disconnect resets the flag and forgets to clear the cache
on_moonraker_disconnected_keeps ==
    /\ Received("MoonrakerDisconnected")
    /\ initialized' = FALSE
    /\ UNCHANGED <<session, calls, wire, requests, next_id, pc, oneshot, probe, listed,
                   exporter, joined, cloned, current_status, todo, guards, sending>>

on_moonraker_disconnected ==
    /\ Received("MoonrakerDisconnected")
    /\ initialized' = FALSE
    /\ current_status' = NoStatus
    /\ Written(clear_contents(current_status))
    /\ UNCHANGED <<session, calls, wire, requests, next_id, pc, oneshot, probe, listed,
                   exporter, joined, todo, guards, sending>>

\* slip: the error of a status patch is returned from process with ?
on_klipper_status_data_returns ==
    /\ Received("KlipperStatusData")
    /\ current_status' = process_status_update(current_status, Head(updates).payload).val
    /\ pc' = IF process_status_update(current_status, Head(updates).payload).ok
             THEN pc ELSE "returned"
    /\ UNCHANGED <<session, calls, wire, requests, next_id, oneshot, initialized,
                   probe, listed, exporter, joined, cloned, todo, guards, sending>>

\* process: the KlipperStatusData arm
on_klipper_status_data ==
    /\ Received("KlipperStatusData")
    /\ current_status' = process_status_update(current_status, Head(updates).payload).val
    /\ Written(merge_contents(current_status, Head(updates).payload))
    /\ UNCHANGED <<session, calls, wire, requests, next_id, pc, oneshot, initialized,
                   probe, listed, exporter, joined, todo, guards, sending>>

\* slip: the payload is merged into the entry instead of replacing it
on_moonraker_status_data_merges ==
    /\ Received("MoonrakerStatusData")
    /\ current_status' = merge_entry(current_status, MoonrakerStatus, Head(updates).payload)
    /\ Written({current_status'})
    /\ UNCHANGED <<session, calls, wire, requests, next_id, pc, oneshot, initialized,
                   probe, listed, exporter, joined, todo, guards, sending>>

\* process: the MoonrakerStatusData arm
on_moonraker_status_data ==
    /\ Received("MoonrakerStatusData")
    /\ current_status' = [k \in DOMAIN current_status \cup {MoonrakerStatus} |->
                            IF k = MoonrakerStatus THEN Head(updates).payload
                            ELSE current_status[k]]
    /\ Written({current_status'})
    /\ UNCHANGED <<session, calls, wire, requests, next_id, pc, oneshot, initialized,
                   probe, listed, exporter, joined, todo, guards, sending>>

\* slip: a device-lifecycle signal is handled like a disconnect
on_other_notification_clears ==
    /\ \E type \in {"KlippyReady", "KlippyShutdown", "KlippyDisconnected"} : Received(type)
    /\ initialized' = FALSE
    /\ current_status' = NoStatus
    /\ UNCHANGED <<session, calls, wire, requests, next_id, pc, oneshot, probe, listed,
                   exporter, joined, cloned, todo, guards, sending>>

\* process: the arm of every other notification
on_other_notification ==
    /\ \E type \in {"KlippyReady", "KlippyShutdown", "KlippyDisconnected"} : Received(type)
    /\ UNCHANGED <<session, calls, wire, requests, next_id, pc, oneshot, initialized,
                   current_status, probe, listed, exporter, joined, cloned, todo, guards, sending>>

\* response.pointer("/result/<member>")
pointer(response, member) ==
    IF member \in DOMAIN response.result THEN <<response.result[member]>> ELSE <<>>

\* the filter of get_object_list: the topics that parse, as keys, in order
RECURSIVE filter_objects(_)
filter_objects(objects) ==
    IF objects = <<>> THEN <<>>
    ELSE LET kind == try_from(Head(objects))
         IN  (IF kind.ok THEN <<kind.val>> ELSE <<>>) \o filter_objects(Tail(objects))

\* the value get_object_list returns for a response
object_list(response) ==
    LET objects == pointer(response, "objects")
    IN  IF objects = <<>> THEN <<>> ELSE filter_objects(objects[1])

\* objects.into_iter().map(|i| i.into()).collect()
into_strings(objects) == [i \in 1..Len(objects) |-> into_string(objects[i])]

\* get_object_list after its await, then subscribe up to its await
get_object_list ==
    /\ pc = "get_object_list"
    /\ oneshot.full
    /\ oneshot' = build_channel
    /\ call(Subscribe(build_channel.chan, into_strings(object_list(oneshot.value))))
    /\ listed' = oneshot.value
    /\ pc' = "subscribe"
    /\ UNCHANGED <<session, wire, requests, next_id, updates, initialized,
                   current_status, probe, exporter, joined, cloned, notification, todo, guards, sending>>

\* slip: the cache is cleared and the state set, the snapshot is not merged
subscribe_unseeded ==
    /\ pc = "subscribe"
    /\ oneshot.full
    /\ LET status == pointer(oneshot.value, "status")
       IN  IF status = <<>>
           THEN UNCHANGED <<current_status, initialized>>
           ELSE /\ current_status' = NoStatus
                /\ initialized' = TRUE
    /\ oneshot' = Idle
    /\ listed' = NoResponse
    /\ pc' = "recv"
    /\ UNCHANGED <<session, calls, wire, requests, next_id, updates, probe, exporter,
                   joined, cloned, notification, todo, guards, sending>>

\* subscribe after its await
subscribe ==
    /\ pc = "subscribe"
    /\ oneshot.full
    /\ LET status == pointer(oneshot.value, "status")
       IN  IF status = <<>>
           THEN UNCHANGED <<current_status, initialized, cloned>>
           ELSE LET seeded == process_status_update(NoStatus, JArr(<<status[1]>>))
                IN  /\ current_status' = seeded.val
                    /\ initialized' = (IF seeded.ok THEN TRUE ELSE initialized)
                    /\ Written(clear_contents(current_status)
                               \cup merge_contents(NoStatus, JArr(<<status[1]>>)))
    /\ oneshot' = Idle
    /\ listed' = NoResponse
    /\ pc' = "recv"
    /\ UNCHANGED <<session, calls, wire, requests, next_id, updates, probe, exporter,
                   joined, notification, todo, guards, sending>>

-----------------------------------------------------------------------------
(* Periodic metrics update (UpdateHandler::export and its task in run)     *)

\* the fields serde requires of the typed record of a key, with their JSON
\* type (fields that are Option or #[serde(default)] are not required); for
\* the kinds the peer of this model reports
RequiredFields(kind) ==
    CASE kind = "Extruder" ->
             [can_extrude |-> "bool", power |-> "num", pressure_advance |-> "num",
              smooth_time |-> "num", target |-> "num", temperature |-> "num"]
      [] kind = "HeaterBed" ->
             [power |-> "num", target |-> "num", temperature |-> "num"]
      [] kind = "MoonrakerStatus" ->
             [cpu_temp |-> "num", moonraker_stats |-> "obj", network |-> "obj",
              system_cpu_usage |-> "obj", system_memory |-> "obj",
              websocket_connections |-> "num"]

\* serde_json::from_value into the typed record of the kind succeeds
from_value(kind, data) ==
    /\ data.t = "obj"
    /\ \A f \in DOMAIN RequiredFields(kind) :
           f \in DOMAIN data.v /\ data.v[f].t = RequiredFields(kind)[f]

\* one arm of the match in export: the entry is decoded, so it is exported
decodes(key, data) ==
    IF key = MoonrakerStatus
    THEN data.t = "arr" /\ Len(data.v) >= 1 /\ from_value(key[1], data.v[1])
    ELSE from_value(key[1], data)

\* the loop of export over the entries in the order the map yields them:
\* the result, and the keys exported before it returned
RECURSIVE export_entries(_, _)
export_entries(status, order) ==
    IF order = <<>> THEN Ok({})
    ELSE IF ~decodes(Head(order), status[Head(order)]) THEN Err({})
    ELSE LET rest == export_entries(status, Tail(order))
         IN  [rest EXCEPT !.val = rest.val \cup {Head(order)}]

\* the orders in which a map can yield its entries
Orders(keys) == {order \in [1..Cardinality(keys) -> keys] : Range(order) = keys}

\* the periodic metrics update task as spawned: no tick yet
Spawned == [tick |-> 0, exported |-> {}, returned |-> FALSE]

\* slip: the tick removes from the cache the entries it exported
export_drains ==
    /\ ~exporter.returned
    /\ \E order \in Orders(DOMAIN current_status) :
           LET result == export_entries(current_status, order)
           IN  /\ exporter' = [tick |-> 1 - exporter.tick, exported |-> result.val,
                               returned |-> ~result.ok]
               /\ current_status' = Restrict(current_status,
                                             DOMAIN current_status \ result.val)
    /\ UNCHANGED <<session, calls, wire, requests, next_id, updates, pc, oneshot,
                   initialized, notification, listed, joined, cloned, probe, todo, guards, sending>>

\* one turn of the loop of the task: interval.tick().await, then
\* handler.export().await?
export ==
    /\ ~exporter.returned
    /\ \E order \in Orders(DOMAIN current_status) :
           LET result == export_entries(current_status, order)
           IN  exporter' = [tick |-> 1 - exporter.tick, exported |-> result.val,
                            returned |-> ~result.ok]
    /\ UNCHANGED <<session, calls, wire, requests, next_id, updates, pc, oneshot,
                   initialized, current_status, notification, listed, joined, cloned, probe, todo, guards, sending>>

\* the keys the cache of this model can hold
CacheKeys == {Extruder, HeaterBed, MoonrakerStatus}

\* self.current_status.clone() is DashMap::clone: it copies the shards one
\* after the other, each under the read lock of that shard alone, while the
\* consumer runs on another worker of the runtime.  The map of this model
\* has two shards, none of them empty; which keys hash to the first is not
\* determined.  This step copies the first shard.
clone_first ==
    /\ ~exporter.returned
    /\ ~cloned.busy
    /\ \E first \in SUBSET CacheKeys \ {{}, CacheKeys} :
           cloned' = [busy |-> TRUE, first |-> first,
                      map |-> Restrict(current_status, first),
                      contents |-> {current_status}]
    /\ UNCHANGED <<session, calls, wire, requests, next_id, updates, pc, oneshot,
                   initialized, current_status, notification, listed, exporter,
                   joined, probe, todo, guards, sending>>

\* the copy once the second shard is copied too
Copy == cloned.map @@ Restrict(current_status, DOMAIN current_status \ cloned.first)

\* the copy of the second shard, then the loop of export over the copy
clone_rest ==
    /\ cloned.busy
    /\ cloned' = NotCloning
    /\ \E order \in Orders(DOMAIN Copy) :
           LET result == export_entries(Copy, order)
           IN  exporter' = [exporter EXCEPT !.exported = result.val,
                                           !.returned = ~result.ok]
    /\ UNCHANGED <<session, calls, wire, requests, next_id, updates, pc, oneshot,
                   initialized, current_status, notification, listed, joined, probe, todo, guards, sending>>

-----------------------------------------------------------------------------
(* The system                                                              *)

NoProbe == [stage |-> "none", topic |-> <<>>, key |-> Err(<<>>),
            text |-> <<>>, again |-> Err(<<>>)]

Init ==
    /\ session = "down"
    /\ calls = <<>>
    /\ wire = {}
    /\ requests = [i \in {} |-> 0]
    /\ next_id = 0
    /\ updates = <<>>
    /\ pc = "recv"
    /\ oneshot = Idle
    /\ initialized = FALSE
    /\ current_status = NoStatus
    /\ notification = Notification("None", JNull)
    /\ listed = NoResponse
    /\ exporter = Spawned
    /\ joined = "None"
    /\ cloned = NotCloning
    /\ todo = <<>>
    /\ guards = NoGuards
    /\ sending = <<>>
    /\ probe = NoProbe

Next ==
    \/ on_connect
    \/ on_close
    \/ on_disconnect
    \/ on_call
    \/ PeerAnswers
    \/ PeerRepeats
    \/ PeerNotifies
    \/ PeerSendsOther
    \/ on_moonraker_connected
    \/ on_moonraker_disconnected
    \/ on_klipper_status_data
    \/ on_moonraker_status_data
    \/ on_other_notification
    \/ get_object_list
    \/ subscribe

Spec == Init /\ [][Next]_vars

\* the task running UpdateHandler::process
Process ==
    \/ on_moonraker_connected
    \/ on_moonraker_disconnected
    \/ on_klipper_status_data
    \/ on_moonraker_status_data
    \/ on_other_notification
    \/ get_object_list
    \/ subscribe

\* The runtime schedules the consumer task and the session actor whenever
\* they can run, the reconnect succeeds in the end, the peer answers the
\* requests it holds.  Closes and pushed notifications are up to the peer.
FairSpec ==
    /\ Spec
    /\ WF_vars(Process)
    /\ WF_vars(on_call)
    /\ WF_vars(on_connect)
    /\ WF_vars(PeerAnswers)

\* The same system with a peer that answers every call with a result.
NextSync ==
    \/ on_connect
    \/ on_close
    \/ on_disconnect
    \/ on_call
    \/ PeerAnswersResult
    \/ PeerNotifies
    \/ Process

FairSync ==
    /\ Init /\ [][NextSync]_vars
    /\ WF_vars(Process)
    /\ WF_vars(on_call)
    /\ WF_vars(on_connect)
    /\ WF_vars(PeerAnswersResult)

\* the session actor ends: its future resolves, and the Client it owned is
\* dropped with the pending table, the queued commands and the only sender
\* of the event channel
session_ends ==
    /\ session \in {"down", "up"}
    /\ session' = "closed"
    /\ calls' = <<>>
    /\ wire' = {}
    /\ requests' = [i \in {} |-> 0]
    /\ UNCHANGED <<next_id, updates, pc, oneshot, initialized, current_status,
                   notification, listed, exporter, joined, cloned, probe, todo, guards, sending>>

\* connection.call(command)? on a session that has ended: the bootstrap
\* returns the error, from on_moonraker_connected or from subscribe
call_fails ==
    /\ session = "closed"
    /\ \/ /\ Received("MoonrakerConnected")
          /\ UNCHANGED <<pc, oneshot>>
       \/ /\ pc = "get_object_list"
          /\ oneshot.full
          /\ oneshot' = Idle
          /\ pc' = "recv"
          /\ UNCHANGED <<updates, notification>>
    /\ UNCHANGED <<session, calls, wire, requests, next_id, initialized,
                   current_status, listed, exporter, joined, cloned, probe, todo, guards, sending>>

\* rx.await? when the sender was dropped without a value
await_fails ==
    /\ session = "closed"
    /\ pc \in {"get_object_list", "subscribe"}
    /\ ~oneshot.full
    /\ oneshot' = Idle
    /\ listed' = NoResponse
    /\ pc' = "recv"
    /\ UNCHANGED <<session, calls, wire, requests, next_id, updates, initialized,
                   current_status, notification, exporter, joined, cloned, probe, todo, guards, sending>>

\* slip: process returns when the channel is empty, closed or not
process_returns_early ==
    /\ pc = "recv"
    /\ updates = <<>>
    /\ pc' = "returned"
    /\ UNCHANGED <<session, calls, wire, requests, next_id, updates, oneshot,
                   initialized, current_status, notification, listed, exporter,
                   joined, cloned, probe, todo, guards, sending>>

\* updates.recv() yields None, the loop of process ends and process returns
\* Err(UpdateHandlerError::ChannelDisconnected)
process_returns ==
    /\ pc = "recv"
    /\ updates = <<>>
    /\ session = "closed"
    /\ pc' = "returned"
    /\ UNCHANGED <<session, calls, wire, requests, next_id, updates, oneshot,
                   initialized, current_status, notification, listed, exporter,
                   joined, cloned, probe, todo, guards, sending>>

\* the tasks of run that have returned
Returned ==
    {task \in {"session", "consumer", "exporter"} :
        \/ task = "session" /\ session = "closed"
        \/ task = "consumer" /\ pc = "returned"
        \/ task = "exporter" /\ exporter.returned}

\* set.join_next().await yields the first task that returned
join_next ==
    /\ joined = "None"
    /\ cloned = NotCloning
    /\ \E task \in Returned : joined' = task
    /\ UNCHANGED <<session, calls, wire, requests, next_id, updates, pc, oneshot,
                   initialized, current_status, notification, listed, exporter,
                   cloned, todo, guards, sending, probe>>

\* run has returned what join_next yielded, and main with it: the process
\* has ended
Exited == joined # "None"

\* every task of run: the session, the consumer and the periodic metrics
\* update, until run returns; the peer pushes a notification when the
\* channel is empty
NextRun ==
    \/ ~Exited /\ on_connect
    \/ ~Exited /\ on_close
    \/ ~Exited /\ on_disconnect
    \/ ~Exited /\ on_call
    \/ ~Exited /\ session_ends
    \/ ~Exited /\ PeerAnswers
    \/ ~Exited /\ updates = <<>> /\ PeerNotifies
    \/ ~Exited /\ session # "closed" /\ on_moonraker_connected
    \/ ~Exited /\ on_moonraker_disconnected
    \/ ~Exited /\ on_klipper_status_data
    \/ ~Exited /\ on_moonraker_status_data
    \/ ~Exited /\ on_other_notification
    \/ ~Exited /\ session # "closed" /\ get_object_list
    \/ ~Exited /\ subscribe
    \/ ~Exited /\ call_fails
    \/ ~Exited /\ await_fails
    \/ ~Exited /\ process_returns
    \/ ~Exited /\ export
    \/ join_next

SpecRun == Init /\ [][NextRun]_vars

\* the consumer and the session with an export that copies the cache shard
\* by shard; the explored copies are those during which the consumer
\* handles at most one event that writes the cache
NextSnapshot ==
    \/ on_connect
    \/ on_close
    \/ on_call
    \/ PeerAnswersResult
    \/ updates = <<>> /\ PeerNotifies
    \/ (cloned.busy => cloned.contents = {current_status}) /\ Process
    \/ clone_first
    \/ clone_rest

SpecSnapshot == Init /\ [][NextSnapshot]_vars

-----------------------------------------------------------------------------
(* Locks on the cache (specification SpecLock)                             *)

\* The steps of process_status_update and of the copy in export between
\* which another worker of the runtime can run: a step ends where a lock of
\* the map is taken or released.  Every key has a shard of its own here.

\* the members of the objects of a payload array, in the order the loops of
\* process_status_update visit them
RECURSIVE members_of(_)
members_of(elements) ==
    IF elements = <<>> THEN <<>>
    ELSE IF Head(elements).t = "obj"
         THEN Head(elements).members \o members_of(Tail(elements))
         ELSE members_of(Tail(elements))

\* process: the KlipperStatusData arm up to the loops of process_status_update
status_update_begins ==
    /\ Received("KlipperStatusData")
    /\ IF Head(updates).payload.t # "arr"
       THEN UNCHANGED <<pc, todo>>
       ELSE /\ pc' = "merge"
            /\ todo' = members_of(Head(updates).payload.v)
    /\ UNCHANGED <<session, calls, wire, requests, next_id, oneshot, initialized,
                   current_status, listed, exporter, joined, cloned, guards, probe, sending>>

\* subscribe from the response on, up to the loops of process_status_update:
\* clear() takes the write lock of every shard in turn and releases it
seed_begins ==
    /\ pc = "subscribe"
    /\ oneshot.full
    /\ IF pointer(oneshot.value, "status") = <<>>
       THEN /\ pc' = "recv"
            /\ UNCHANGED <<current_status, todo, cloned>>
       ELSE /\ guards.shards = {}
            /\ pc' = "seed"
            /\ current_status' = NoStatus
            /\ todo' = members_of(pointer(oneshot.value, "status"))
            /\ Written(clear_contents(current_status))
    /\ oneshot' = Idle
    /\ listed' = NoResponse
    /\ UNCHANGED <<session, calls, wire, requests, next_id, updates, initialized,
                   notification, exporter, joined, guards, probe, sending>>

\* the loop body up to the entry guard: key.as_str().try_into()?, then
\* current_status.entry(kind).or_insert(json!({})) takes the write lock of
\* the shard of the key and holds it as the guard of the entry
lock_entry ==
    /\ pc \in {"merge", "seed"}
    /\ todo # <<>>
    /\ LET kind == try_from(Head(todo)[1])
       IN  IF ~kind.ok
           THEN /\ pc' = "recv"
                /\ todo' = <<>>
                /\ UNCHANGED <<current_status, guards>>
           ELSE /\ kind.val \notin guards.entry \cup guards.shards
                /\ guards' = [guards EXCEPT !.entry = @ \cup {kind.val}]
                /\ current_status' =
                       IF kind.val \in DOMAIN current_status THEN current_status
                       ELSE merge_entry(current_status, kind.val, EmptyObject)
                /\ UNCHANGED <<pc, todo>>
    /\ UNCHANGED <<session, calls, wire, requests, next_id, updates, oneshot,
                   initialized, notification, listed, exporter, joined, cloned, probe, sending>>

\* slip: the guard of the entry outlives the body of the loop
merge_locked_keeps ==
    /\ pc \in {"merge", "seed"}
    /\ todo # <<>>
    /\ LET kind == try_from(Head(todo)[1])
       IN  /\ kind.ok
           /\ kind.val \in guards.entry
           /\ current_status' = merge_entry(current_status, kind.val, Head(todo)[2])
           /\ guards' = guards
    /\ todo' = Tail(todo)
    /\ Written({current_status'})
    /\ UNCHANGED <<session, calls, wire, requests, next_id, updates, pc, oneshot,
                   initialized, notification, listed, exporter, joined, probe, sending>>

\* the rest of the loop body: json_patch::merge(&mut entry, patch), and the
\* guard is dropped where the body ends
merge_locked ==
    /\ pc \in {"merge", "seed"}
    /\ todo # <<>>
    /\ LET kind == try_from(Head(todo)[1])
       IN  /\ kind.ok
           /\ kind.val \in guards.entry
           /\ current_status' = merge_entry(current_status, kind.val, Head(todo)[2])
           /\ guards' = [guards EXCEPT !.entry = @ \ {kind.val}]
    /\ todo' = Tail(todo)
    /\ Written({current_status'})
    /\ UNCHANGED <<session, calls, wire, requests, next_id, updates, pc, oneshot,
                   initialized, notification, listed, exporter, joined, probe, sending>>

\* the loops are through: process_status_update returns Ok, to process or to
\* subscribe, which sets the flag and returns
status_update_ends ==
    /\ pc \in {"merge", "seed"}
    /\ todo = <<>>
    /\ initialized' = (IF pc = "seed" THEN TRUE ELSE initialized)
    /\ pc' = "recv"
    /\ UNCHANGED <<session, calls, wire, requests, next_id, updates, oneshot,
                   current_status, notification, listed, exporter, joined, cloned,
                   todo, guards, probe, sending>>

\* export begins, or goes on, with the copy: DashMap::clone takes the read
\* lock of the next shard
read_lock ==
    /\ ~exporter.returned
    /\ guards.shards = {}
    /\ \E shard \in IF cloned.busy THEN {CacheKeys \ cloned.first}
                    ELSE SUBSET CacheKeys \ {{}, CacheKeys} :
           /\ shard \cap guards.entry = {}
           /\ guards' = [guards EXCEPT !.shards = shard]
    /\ cloned' = [cloned EXCEPT !.busy = TRUE]
    /\ UNCHANGED <<session, calls, wire, requests, next_id, updates, pc, oneshot,
                   initialized, current_status, notification, listed, exporter,
                   joined, todo, probe, sending>>

\* the first shard is copied and its lock released
copy_first ==
    /\ cloned.busy
    /\ cloned.first = {}
    /\ guards.shards # {}
    /\ cloned' = [busy |-> TRUE, first |-> guards.shards,
                  map |-> Restrict(current_status, guards.shards),
                  contents |-> {current_status}]
    /\ guards' = [guards EXCEPT !.shards = {}]
    /\ UNCHANGED <<session, calls, wire, requests, next_id, updates, pc, oneshot,
                   initialized, current_status, notification, listed, exporter,
                   joined, todo, probe, sending>>

\* the second shard is copied and its lock released, then the loop of
\* export over the copy; export returns to the timer of its task
copy_rest ==
    /\ cloned.busy
    /\ cloned.first # {}
    /\ guards.shards # {}
    /\ cloned' = NotCloning
    /\ guards' = [guards EXCEPT !.shards = {}]
    /\ \E order \in Orders(DOMAIN Copy) :
           LET result == export_entries(Copy, order)
           IN  exporter' = [exporter EXCEPT !.exported = result.val,
                                           !.returned = ~result.ok]
    /\ UNCHANGED <<session, calls, wire, requests, next_id, updates, pc, oneshot,
                   initialized, current_status, notification, listed, joined, todo,
                   probe, sending>>

\* the consumer, the session and the copy of export, lock by lock, on a
\* socket that stays open; clear and insert wait for the read lock of the
\* copy to be released
NextLock ==
    \/ on_connect
    \/ on_call
    \/ PeerAnswersResult
    \/ updates = <<>> /\ PeerNotifies
    \/ on_moonraker_connected
    \/ MoonrakerStatus \notin guards.shards /\ on_moonraker_status_data
    \/ on_other_notification
    \/ get_object_list
    \/ status_update_begins
    \/ seed_begins
    \/ lock_entry
    \/ merge_locked
    \/ status_update_ends
    \/ read_lock
    \/ copy_first
    \/ copy_rest

SpecLock == Init /\ [][NextLock]_vars

-----------------------------------------------------------------------------
(* A full event channel (specification SpecPressure)                       *)

\* the frame of a device-lifecycle notification
ReadyFrame == NotificationFrame(JStr("notify_klippy_ready"), JArr(<<>>))

\* the peer pushes device-lifecycle notifications, as many as it likes
PeerFloods ==
    /\ on_text(ReadyFrame)
    /\ UNCHANGED wire

\* on_text of a notification frame, up to self.updates.send(notification).await
\* on a channel that is full: the session actor is suspended in that send,
\* and it runs no other handler until the send completes
send_suspends ==
    /\ session = "up"
    /\ sending = <<>>
    /\ Len(updates) >= ChannelCapacity
    /\ sending' = notification_of(ReadyFrame.method, ReadyFrame.params)
    /\ UNCHANGED <<session, calls, wire, requests, next_id, updates, pc, oneshot,
                   initialized, current_status, notification, listed, exporter,
                   joined, cloned, todo, guards, probe>>

\* the consumer made room in the channel: the send completes, on_text returns
send_resumes ==
    /\ sending # <<>>
    /\ send(sending[1])
    /\ sending' = <<>>
    /\ UNCHANGED <<session, calls, wire, requests, next_id, pc, oneshot,
                   initialized, current_status, notification, listed, exporter,
                   joined, cloned, todo, guards, probe>>

\* the session actor runs one handler at a time
ActorIdle == sending = <<>>

\* the consumer and the session on a socket that stays open, with a peer
\* that answers every call with a result and pushes notifications meanwhile
NextPressure ==
    \/ ActorIdle /\ on_connect
    \/ ActorIdle /\ on_call
    \/ ActorIdle /\ PeerAnswersResult
    \/ ActorIdle /\ PeerFloods
    \/ send_suspends
    \/ send_resumes
    \/ on_moonraker_connected
    \/ on_other_notification
    \/ get_object_list
    \/ subscribe

SpecPressure == Init /\ [][NextPressure]_vars

\* The runtime schedules the consumer task and the session actor whenever
\* they can run, and the peer answers the requests it holds; the frame of
\* the answer is handled once the actor is through with the frames before.
FairPressure ==
    /\ SpecPressure
    /\ WF_vars(on_moonraker_connected)
    /\ WF_vars(on_other_notification)
    /\ WF_vars(get_object_list)
    /\ WF_vars(subscribe)
    /\ WF_vars(ActorIdle /\ on_connect)
    /\ WF_vars(ActorIdle /\ on_call)
    /\ WF_vars(ActorIdle /\ PeerAnswersResult)
    /\ WF_vars(send_resumes)

-----------------------------------------------------------------------------
(* Topic conversions on their own (specification SpecKey)                  *)

Names == {"extruder1", "stepper_x"}

\* every kind alone where the grammar has a form without instance name, and
\* every kind with an instance name where the grammar takes one
SupportedTopics ==
    {<<k>> : k \in DefaultNamed \cup UnitKinds \cup {"fan"}}
    \cup {<<k, WS, n>> : k \in DefaultNamed \cup RequiredNamed, n \in Names}
    \cup {<<k, WS, k>> : k \in DefaultNamed \cup RequiredNamed}

Topic(topic) == [stage |-> "topic", topic |-> topic, key |-> Err(<<>>),
                 text |-> <<>>, again |-> Err(<<>>)]
Key(key) == [stage |-> "key", topic |-> <<>>, key |-> Ok(key),
             text |-> <<>>, again |-> Err(<<>>)]

InitKey ==
    /\ session = "down"
    /\ calls = <<>>
    /\ wire = {}
    /\ requests = [i \in {} |-> 0]
    /\ next_id = 0
    /\ updates = <<>>
    /\ pc = "recv"
    /\ oneshot = Idle
    /\ initialized = FALSE
    /\ current_status = NoStatus
    /\ notification = Notification("None", JNull)
    /\ listed = NoResponse
    /\ exporter = Spawned
    /\ joined = "None"
    /\ cloned = NotCloning
    /\ todo = <<>>
    /\ guards = NoGuards
    /\ sending = <<>>
    /\ probe \in {Topic(t) : t \in SupportedTopics} \cup {Key(MoonrakerStatus)}

system == <<session, calls, wire, requests, next_id, updates, pc, oneshot,
            initialized, current_status, notification, listed, exporter, joined, cloned,
            todo, guards, sending>>

\* StatusData::try_from(topic)
Parse ==
    /\ probe.stage = "topic"
    /\ probe' = [probe EXCEPT !.stage = "key", !.key = try_from(probe.topic)]
    /\ UNCHANGED system

\* String::from(key)
Render ==
    /\ probe.stage = "key"
    /\ probe.key.ok
    /\ probe' = [probe EXCEPT !.stage = "text", !.text = into_string(probe.key.val)]
    /\ UNCHANGED system

\* StatusData::try_from(String::from(key))
ParseAgain ==
    /\ probe.stage = "text"
    /\ probe' = [probe EXCEPT !.stage = "again", !.again = try_from(probe.text)]
    /\ UNCHANGED system

NextKey == Parse \/ Render \/ ParseAgain

SpecKey == InitKey /\ [][NextKey]_vars

\* topics outside the grammar: no word at all, a first word that is no
\* known kind (with or without a second word), and a kind that requires an
\* instance name without one
UnsupportedTopics ==
    {<<>>, <<WS>>, <<"moonraker">>, <<"bogus_unknown_subsystem">>,
     <<"bogus_unknown_subsystem", WS, "extruder">>, <<WS, "EXTRUDER">>}
    \cup {<<k>> : k \in RequiredNamed}
    \cup {<<k, WS>> : k \in RequiredNamed}

\* supported topics with whitespace around the words and with a third word
PaddedTopics ==
    {<<WS, k, WS>> : k \in DefaultNamed \cup UnitKinds}
    \cup {<<k, WS, n, WS, "third">> : k \in DefaultNamed \cup RequiredNamed, n \in Names}

InitParse ==
    /\ session = "down"
    /\ calls = <<>>
    /\ wire = {}
    /\ requests = [i \in {} |-> 0]
    /\ next_id = 0
    /\ updates = <<>>
    /\ pc = "recv"
    /\ oneshot = Idle
    /\ initialized = FALSE
    /\ current_status = NoStatus
    /\ notification = Notification("None", JNull)
    /\ listed = NoResponse
    /\ exporter = Spawned
    /\ joined = "None"
    /\ cloned = NotCloning
    /\ todo = <<>>
    /\ guards = NoGuards
    /\ sending = <<>>
    /\ probe \in {Topic(t) : t \in SupportedTopics \cup PaddedTopics \cup UnsupportedTopics}

NextParse == Parse

SpecParse == InitParse /\ [][NextParse]_vars

-----------------------------------------------------------------------------
(* Status patches on a subscribed cache (specification SpecPatch)          *)

Leaves == {JNum(1), JNum(2), JArr(<<JNum(1), JNum(2)>>), JArr(<<JNum(2)>>)}

ObjectsOver(names, values) ==
    {JObj(f) : f \in UNION {[S -> values] : S \in SUBSET names}}

\* patches of a nested object
InnerPatches == ObjectsOver({"x", "y"}, {JNull, JNum(1), JNum(2)})

OptionalField(name, values) == {NoMembers} \cup {Field(name, v) : v \in values}

\* patches of one key: member position is a leaf, an object or null, member
\* speed a number or null
Patches ==
    {JObj(a @@ b) :
        a \in OptionalField("position", {JNull} \cup Leaves \cup InnerPatches),
        b \in OptionalField("speed", {JNull, JNum(1)})}

PatchPayloads ==
    {JArr(<<JMembers(<< <<<<"toolhead">>, p>> >>), JNum(1)>>) :
        p \in Patches \cup {JNum(1), JNull}}
    \cup {JArr(<<JMembers(<< <<<<"bogus_unknown_subsystem">>, p>> >>)>>) :
            p \in {Temperature(300)}}
    \cup {JArr(<<JMembers(Members(MixedMembers, <<1, 2, 3>>))>>)}
    \cup {JObj(Field("toolhead", JNum(1)))}

\* the system after a bootstrap seeded from the first snapshot
InitPatch ==
    /\ session = "up"
    /\ calls = <<>>
    /\ wire = {}
    /\ requests = [i \in {} |-> 0]
    /\ next_id = 2
    /\ updates = <<>>
    /\ pc = "recv"
    /\ oneshot = Idle
    /\ initialized = TRUE
    /\ current_status = [k \in {Extruder, HeaterBed} |->
                           IF k = Extruder THEN Temperature(2001) ELSE Temperature(600)]
    /\ notification = MoonrakerConnected
    /\ listed = NoResponse
    /\ exporter = Spawned
    /\ joined = "None"
    /\ cloned = NotCloning
    /\ todo = <<>>
    /\ guards = NoGuards
    /\ sending = <<>>
    /\ probe = NoProbe

\* the peer pushes one status update and waits until it is handled
PeerPatches ==
    \E payload \in PatchPayloads :
        /\ updates = <<>>
        /\ on_text(NotificationFrame(JStr("notify_status_update"), payload))
        /\ UNCHANGED wire

NextPatch == PeerPatches \/ on_klipper_status_data

SpecPatch == InitPatch /\ [][NextPatch]_vars

-----------------------------------------------------------------------------
(* Process statistics on a subscribed cache (specification SpecStat)       *)

\* params of notify_proc_stat_update: the array Moonraker sends, and objects
StatPayloads ==
    ProcStatPayloads
    \cup { JObj(Field("cpu_temp", JNull)),
           JObj(Field("cpu_temp", JNum(460))),
           JObj(Field("websocket_connections", JNum(1))) }

StatFrames ==
    {NotificationFrame(JStr("notify_proc_stat_update"), p) : p \in StatPayloads}
    \cup {NotificationFrame(JStr("notify_status_update"), p) : p \in StatusPayloads}

\* the peer pushes one notification and waits until it is handled
PeerStats ==
    \E frame \in StatFrames :
        /\ updates = <<>>
        /\ on_text(frame)
        /\ UNCHANGED wire

NextStat == PeerStats \/ on_moonraker_status_data \/ on_klipper_status_data

\* from the system after a bootstrap seeded from the first snapshot
SpecStat == InitPatch /\ [][NextStat]_vars

-----------------------------------------------------------------------------
(* Properties of the system (specification Spec)                           *)

\* C2 - Disconnect clears: whenever the notification the consumer handled
\* last is MoonrakerDisconnected, whatever Connected, seed, status and
\* process-stat notifications it handled before, the status cache is empty.
DisconnectClears ==
    (notification.type = "MoonrakerDisconnected" /\ pc = "recv")
        => current_status = NoStatus

\* C2 witness: a disconnect was handled after a bootstrap got both its
\* responses, and the cache is empty while the reconnect is still queued.
DisconnectClearsWitness ==
    /\ notification.type = "MoonrakerDisconnected"
    /\ pc = "recv"
    /\ next_id >= 2
    /\ DOMAIN requests = {}
    /\ current_status = NoStatus
    /\ updates # <<>>
    /\ Head(updates).type = "MoonrakerConnected"

\* the step in which get_object_list returns for a response listing objects
\* and subscribe sends its call
FilterStep(objects) ==
    /\ pc = "get_object_list"
    /\ oneshot.full
    /\ pointer(oneshot.value, "objects") = <<objects>>
    /\ pc' = "subscribe"

\* the objects of the Subscribe command sent in this step
Subscribed == Range(calls'[Len(calls')].objects)

ScenarioObjects ==
    <<<<"extruder">>, <<"mcu", WS, "bogus_unknown_subsystem">>, <<"heater_bed">>>>

\* C5 as claimed - End-to-end filter: for the discover response
\* ["extruder", "mcu bogus_unknown_subsystem", "heater_bed"] the set passed
\* to subscribe is exactly {extruder, heater_bed}.
FilterDropsNamedMcu ==
    [][FilterStep(ScenarioObjects)
         => Subscribed = {<<"extruder">>, <<"heater_bed">>}]_vars

\* C5 amended - for that discover response the set passed to subscribe is
\* {extruder, mcu bogus_unknown_subsystem, heater_bed}: the mcu kind takes any
\* instance name; a topic whose first word is no known kind is dropped, so
\* ["bogus_unknown_subsystem", "heater_bed"] gives {heater_bed}.
FilterKeepsNamedMcu ==
    [][/\ FilterStep(ScenarioObjects)
            => Subscribed = {<<"extruder">>, <<"heater_bed">>,
                             <<"mcu", WS, "bogus_unknown_subsystem">>}
       /\ FilterStep(<<<<"bogus_unknown_subsystem">>, <<"heater_bed">>>>)
            => Subscribed = {<<"heater_bed">>}]_vars

\* C5 witness: the peer holds the subscribe request made from the scenario's list.
FilterKeepsNamedMcuWitness ==
    \E r \in wire :
        /\ r.method = "printer.objects.subscribe"
        /\ r.objects = {<<"extruder">>, <<"heater_bed">>,
                        <<"mcu", WS, "bogus_unknown_subsystem">>}

ScenarioPatch ==
    JArr(<<JMembers(<< <<<<"extruder">>, Temperature(2053)>> >>), JNum(1)>>)
ScenarioSeed ==
    [k \in {Extruder, HeaterBed} |->
        IF k = Extruder THEN Temperature(2001) ELSE Temperature(600)]
ScenarioSnapshot ==
    [k \in {Extruder, HeaterBed} |->
        IF k = Extruder THEN Temperature(2053) ELSE Temperature(600)]

\* the step in which the consumer handles the status patch of the scenario
PatchStep ==
    /\ pc = "recv"
    /\ updates # <<>>
    /\ Head(updates) = KlipperStatusData(ScenarioPatch)
    /\ updates' = Tail(updates)

\* C6 - End-to-end seed and patch: handling the patch
\* {extruder: {temperature: 205.3}} sets extruder.temperature to 205.3 and
\* changes no other field of extruder and no other key; on the cache seeded
\* with {extruder: {temperature: 200.1}, heater_bed: {temperature: 60.0}} the
\* snapshot is then extruder.temperature = 205.3, heater_bed.temperature = 60.0.
SeedAndPatch ==
    [][PatchStep =>
         /\ DOMAIN current_status' = DOMAIN current_status \cup {Extruder}
         /\ \A k \in DOMAIN current_status \ {Extruder} :
                current_status'[k] = current_status[k]
         /\ current_status'[Extruder].t = "obj"
         /\ current_status'[Extruder].v["temperature"] = JNum(2053)
         /\ Extruder \in DOMAIN current_status =>
                /\ DOMAIN current_status'[Extruder].v
                     = DOMAIN current_status[Extruder].v \cup {"temperature"}
                /\ \A f \in DOMAIN current_status[Extruder].v \ {"temperature"} :
                       current_status'[Extruder].v[f] = current_status[Extruder].v[f]
         /\ current_status = ScenarioSeed => current_status' = ScenarioSnapshot
         /\ initialized' = initialized]_vars

\* C6 witness: the patch was handled in a subscribed state and the snapshot
\* is the one of the scenario.
SeedAndPatchWitness ==
    /\ initialized
    /\ pc = "recv"
    /\ notification = KlipperStatusData(ScenarioPatch)
    /\ current_status = ScenarioSnapshot

\* the step in which the consumer handles a status update
StatusStep ==
    /\ pc = "recv"
    /\ updates # <<>>
    /\ Head(updates).type = "KlipperStatusData"
    /\ updates' = Tail(updates)

\* the members of a status object merged as the claim has it: a member whose
\* topic does not parse is skipped, the members after it are merged
RECURSIVE SkippingUnknown(_, _)
SkippingUnknown(status, members) ==
    IF members = <<>> THEN status
    ELSE LET kind == try_from(members[1][1])
         IN  SkippingUnknown(IF kind.ok
                             THEN merge_entry(status, kind.val, members[1][2])
                             ELSE status,
                             Tail(members))

\* C4 as claimed - Unknown topic tolerance: handling a status update
\* [status, eventtime] merges every member of status whose topic parses,
\* wherever the member with the unparsable topic stands.
UnknownTopicTolerance ==
    [][(StatusStep /\ Head(updates).payload.t = "arr"
                   /\ Head(updates).payload.v[1].t = "obj")
         => current_status'
              = SkippingUnknown(current_status, Head(updates).payload.v[1].members)]_vars

-----------------------------------------------------------------------------
(* Liveness (specifications FairSpec and FairSync)                         *)

\* the consumer awaits the response of a call
Awaiting == pc \in {"get_object_list", "subscribe"} /\ ~oneshot.full

\* the awaited call was numbered and sent, and the socket it was sent on
\* closed before the peer answered it
Orphaned ==
    /\ Awaiting
    /\ \E id \in DOMAIN requests :
          /\ requests[id] = oneshot.chan
          /\ \A r \in wire : r.id # id

\* C1 as claimed - Orphaned calls fail: a call whose socket closed before
\* its response arrived is resolved in the end (with a failure), so the
\* consumer leaves the await and goes back to receiving notifications.
OrphanedCallsFail == Orphaned ~> (pc = "recv")

\* C3 as claimed - Resynchronisation liveness: if from some point on the
\* connection stays up, and the peer answers every call with a result, then
\* in the end the state is Subscribed for good and the cache holds the keys
\* of the subscribe response.
Resynchronises ==
    <>[](session = "up")
        => <>[](initialized /\ {Extruder, HeaterBed} \subseteq DOMAIN current_status)

-----------------------------------------------------------------------------
(* Topic round trip (specification SpecKey)                                *)

\* the normalized form of a supported topic: a default-named kind followed
\* by its own name is the bare kind, every other supported topic is itself
Normalize(topic) ==
    IF Len(topic) = 3 /\ topic[1] \in DefaultNamed /\ topic[3] = topic[1]
    THEN <<topic[1]>>
    ELSE topic

\* C7 as claimed - Key round-trip: every supported topic parses, the parsed
\* key renders to the normalized topic, and every key that can be in the
\* cache (a parsed key, or the service-status key) renders to a text that
\* parses to the same key.
KeyRoundTrip ==
    /\ (probe.stage # "topic" /\ probe.topic # <<>>) => probe.key.ok
    /\ (probe.stage \in {"text", "again"} /\ probe.topic # <<>>)
          => probe.text = Normalize(probe.topic)
    /\ probe.stage = "again" => probe.again = probe.key

-----------------------------------------------------------------------------
(* Merge properties (specification SpecPatch)                              *)

Toolhead == <<"Toolhead">>

\* the notification is a status update whose status is {toolhead: patch}
\* with an object as patch
IsToolheadPatch(event) ==
    /\ event.type = "KlipperStatusData"
    /\ event.payload.t = "arr"
    /\ Len(event.payload.v) >= 1
    /\ event.payload.v[1].t = "obj"
    /\ Len(event.payload.v[1].members) = 1
    /\ event.payload.v[1].members[1][1] = <<"toolhead">>
    /\ event.payload.v[1].members[1][2].t = "obj"

ToolheadPatch(event) == event.payload.v[1].members[1][2].v

\* C8 - Merge idempotence: handling the status update that was handled
\* last once more leaves the cache as it is.
MergeIdempotent ==
    [][(StatusStep /\ Head(updates) = notification)
         => current_status' = current_status]_vars

\* C8 witness: a toolhead patch that sets an array was handled, the cache
\* holds its result, and the same status update is the next one to handle.
MergeIdempotentWitness ==
    /\ pc = "recv"
    /\ IsToolheadPatch(notification)
    /\ "position" \in DOMAIN ToolheadPatch(notification)
    /\ ToolheadPatch(notification)["position"].t = "arr"
    /\ Toolhead \in DOMAIN current_status
    /\ current_status[Toolhead].v["position"] = ToolheadPatch(notification)["position"]
    /\ updates = <<notification>>

RECURSIVE Wins(_, _)
\* every member of patch p has its value in doc; a null member is absent, a
\* member that is an object wins member by member
Wins(doc, p) ==
    \A f \in DOMAIN p :
        CASE p[f].t = "null" -> f \notin DOMAIN doc
          [] p[f].t = "obj" ->
                 f \in DOMAIN doc /\ doc[f].t = "obj" /\ Wins(doc[f].v, p[f].v)
          [] OTHER -> f \in DOMAIN doc /\ doc[f] = p[f]

RECURSIVE OnlyFirstWins(_, _, _)
\* every member that p1 has and p2 has not has p1's value in doc
OnlyFirstWins(doc, p1, p2) ==
    \A f \in DOMAIN p1 :
        IF f \notin DOMAIN p2
        THEN Wins(doc, Field(f, p1[f]))
        ELSE (p1[f].t = "obj" /\ p2[f].t = "obj")
                => OnlyFirstWins(doc[f].v, p1[f].v, p2[f].v)

\* C9 - Last applied patch wins per field: after two patches to the same
\* key handled one after the other, every field of the second has the
\* second's value (is absent for null) and every field only the first has
\* has the first's value, member by member in nested objects; both orders
\* of every two patches are covered.
LastPatchWins ==
    [][(StatusStep /\ IsToolheadPatch(notification) /\ IsToolheadPatch(Head(updates)))
         => /\ Toolhead \in DOMAIN current_status'
            /\ current_status'[Toolhead].t = "obj"
            /\ Wins(current_status'[Toolhead].v, ToolheadPatch(Head(updates)))
            /\ OnlyFirstWins(current_status'[Toolhead].v, ToolheadPatch(notification),
                             ToolheadPatch(Head(updates)))]_vars

\* C9 witness: the patch {position: 2} was handled last; position has its
\* value and speed still has the value of the patch before it.
LastPatchWinsWitness ==
    /\ pc = "recv"
    /\ IsToolheadPatch(notification)
    /\ ToolheadPatch(notification) = Field("position", JNum(2))
    /\ Toolhead \in DOMAIN current_status
    /\ current_status[Toolhead] = JObj(Field("position", JNum(2)) @@ Field("speed", JNum(1)))

RECURSIVE Frame(_, _, _)
\* new is old with patch p merged: members p does not name are unchanged,
\* a member is removed only for a null, an array or number replaces the
\* member, an object is merged into it, nothing else is added
Frame(old, new, p) ==
    /\ DOMAIN new \subseteq DOMAIN old \cup DOMAIN p
    /\ \A f \in DOMAIN old \ DOMAIN p : f \in DOMAIN new /\ new[f] = old[f]
    /\ \A f \in DOMAIN p :
          CASE p[f].t = "null" -> f \notin DOMAIN new
            [] p[f].t = "obj" ->
                   /\ f \in DOMAIN new
                   /\ new[f].t = "obj"
                   /\ Frame(IF f \in DOMAIN old /\ old[f].t = "obj" THEN old[f].v
                            ELSE NoMembers,
                            new[f].v, p[f].v)
            [] OTHER -> f \in DOMAIN new /\ new[f] = p[f]

\* C10 - Merge frame: merging an object patch into the entry of a key starts
\* from the empty object when the key is absent, changes the entry as Frame
\* says and leaves the entry of every other key unchanged.
MergeFrame ==
    [][(StatusStep /\ IsToolheadPatch(Head(updates)))
         => /\ DOMAIN current_status' = DOMAIN current_status \cup {Toolhead}
            /\ \A k \in DOMAIN current_status \ {Toolhead} :
                   current_status'[k] = current_status[k]
            /\ current_status'[Toolhead].t = "obj"
            /\ Frame(IF Toolhead \in DOMAIN current_status
                        /\ current_status[Toolhead].t = "obj"
                     THEN current_status[Toolhead].v ELSE NoMembers,
                     current_status'[Toolhead].v,
                     ToolheadPatch(Head(updates)))]_vars

\* C10 witness: the nested patch {position: {x: 2}} was merged; y of
\* position, speed and the seeded keys are as before.
MergeFrameWitness ==
    /\ pc = "recv"
    /\ IsToolheadPatch(notification)
    /\ ToolheadPatch(notification) = Field("position", JObj(Field("x", JNum(2))))
    /\ DOMAIN current_status = {Extruder, HeaterBed, Toolhead}
    /\ current_status[Extruder] = Temperature(2001)
    /\ current_status[Toolhead]
         = JObj(Field("position", JObj(Field("x", JNum(2)) @@ Field("y", JNum(1))))
                @@ Field("speed", JNum(1)))

-----------------------------------------------------------------------------
(* Calls and responses of the session (specification Spec)                 *)

\* the pending entries this step removes
Resolved == DOMAIN requests \ DOMAIN requests'

\* C11 - Exactly-once response delivery: the awaited call is fulfilled only
\* in a step that removes its pending entry, by a response that carries its
\* id; a response with another id or without entry fulfils nothing; once
\* fulfilled, the value of the call is never replaced and its entry is gone,
\* so a repeated frame with the same id fulfils nothing.
ExactlyOnceDelivery ==
    [][/\ (oneshot'.full /\ ~oneshot.full)
            => \E id \in Resolved : /\ requests[id] = oneshot.chan
                                    /\ oneshot'.chan = oneshot.chan
                                    /\ oneshot'.value.id = id
       /\ \A id \in Resolved :
              requests[id] = oneshot.chan
                  => oneshot' = [oneshot EXCEPT !.full = TRUE, !.value = oneshot'.value]
                     /\ oneshot'.value.id = id
       /\ (oneshot.full /\ oneshot'.chan = oneshot.chan) => oneshot' = oneshot
       /\ \A id \in DOMAIN requests' : oneshot'.full => requests'[id] # oneshot'.chan]_vars

\* C11 witness: the subscribe call, numbered 1, was fulfilled by the response
\* with id 1 and its entry is removed, so every later frame finds no entry.
ExactlyOnceDeliveryWitness ==
    /\ pc = "subscribe"
    /\ oneshot.full
    /\ oneshot.value.id = 1
    /\ "status" \in DOMAIN oneshot.value.result
    /\ DOMAIN requests = {}
    /\ wire = {}

\* the step in which the session handles a socket close (on_close or
\* on_disconnect)
CloseStep == session = "up" /\ session' # "up"

\* C12 as claimed - Pending calls are discarded on disconnect: the step that
\* handles a socket close leaves the pending table empty, and the call the
\* consumer awaits, if it was pending, is resolved (failed) by that step.
PendingDiscardedOnClose ==
    [][CloseStep
         => /\ DOMAIN requests' = {}
            /\ (\E id \in DOMAIN requests : requests[id] = oneshot.chan)
                  => oneshot'.full]_vars

\* the step in which on_call numbers and registers a call
OnCallStep == Len(calls') < Len(calls)

\* C13 - Call id uniqueness: the counter never goes down, whatever connects
\* and closes happen; a call is registered under the counter's value, which
\* is above the id of every call registered before and is not pending; the
\* table gains an entry in no other way.
CallIdsUnique ==
    [][/\ next_id' >= next_id
       /\ OnCallStep => /\ next_id' = next_id + 1
                        /\ next_id \notin DOMAIN requests
                        /\ DOMAIN requests' = DOMAIN requests \cup {next_id}
       /\ ~OnCallStep => DOMAIN requests' \subseteq DOMAIN requests
       /\ \A id \in DOMAIN requests' : id < next_id']_vars

\* C13 witness: the discover call of the second connection is pending under
\* id 2, after ids 0 and 1 were used on the first connection.
CallIdsUniqueWitness ==
    /\ pc = "get_object_list"
    /\ notification = MoonrakerConnected
    /\ DOMAIN requests = {2}
    /\ next_id = 3
    /\ session = "up"

\* the step puts a lifecycle event on the channel
EmitsLifecycle ==
    /\ Len(updates') > 0
    /\ updates' = Append(updates, updates'[Len(updates')])
    /\ updates'[Len(updates')].type \in {"MoonrakerConnected", "MoonrakerDisconnected"}

\* the step in which the session has connected again
ConnectStep == session = "down" /\ session' # "down"

-----------------------------------------------------------------------------
(* Bootstrap (specification Spec)                                          *)

\* the step in which get_object_list returns
DiscoverStep == pc = "get_object_list" /\ pc' # "get_object_list"
\* the step in which subscribe returns
SeedStep == pc = "subscribe" /\ pc' # "subscribe"
\* the step in which the consumer receives a lifecycle event
LifecycleStep ==
    /\ pc = "recv"
    /\ updates # <<>>
    /\ Head(updates).type \in {"MoonrakerConnected", "MoonrakerDisconnected"}
    /\ updates' = Tail(updates)

\* the response is an RPC error: it has no result.objects
DiscoverFailed(response) == pointer(response, "objects") = <<>>
\* the response has no result.status, or a key of the status does not parse
SeedFailed(response) ==
    \/ pointer(response, "status") = <<>>
    \/ ~process_status_update(NoStatus, JArr(pointer(response, "status"))).ok

\* C17 as claimed - Remote error on discover aborts bootstrap: when
\* get_object_list returns for a response without result.objects, the
\* bootstrap ends there: no subscribe call is issued, the consumer is back
\* at receiving events, and the state does not become Subscribed.
DiscoverErrorAborts ==
    [][(DiscoverStep /\ DiscoverFailed(oneshot.value))
         => /\ calls' = calls
            /\ pc' = "recv"
            /\ ~initialized']_vars

\* C15 as claimed - Subscribed gating: the flag becomes true only in the
\* step that ends the bootstrap of the Connected event handled last, when
\* discover was answered with a result, subscribe with a status, and the
\* seed returned no error; the step that receives a lifecycle event leaves
\* the flag false (Disconnected resets it), and it is false as long as a
\* bootstrap is in progress.
SubscribedGating ==
    [][/\ (initialized' /\ ~initialized)
            => /\ SeedStep
               /\ notification = MoonrakerConnected
               /\ ~DiscoverFailed(listed)
               /\ ~SeedFailed(oneshot.value)
       /\ LifecycleStep => ~initialized'
       /\ pc' # "recv" => ~initialized']_vars

\* C16 as claimed - Bootstrap failure handling: when discover or subscribe
\* is answered with an error, or the seed fails, the bootstrap ends in that
\* step without a further call and without becoming Subscribed, and the
\* consumer is back at receiving events; a call is issued only when a
\* Connected event is received (one discover) and when its discover returns
\* (one subscribe).
BootstrapFailureHandling ==
    [][/\ (DiscoverStep /\ DiscoverFailed(oneshot.value))
            => (calls' = calls /\ pc' = "recv" /\ ~initialized')
       /\ (SeedStep /\ (DiscoverFailed(listed) \/ SeedFailed(oneshot.value)))
            => (calls' = calls /\ pc' = "recv" /\ ~initialized')
       /\ Len(calls') > Len(calls)
            => /\ Len(calls') = Len(calls) + 1
               /\ \/ /\ LifecycleStep
                     /\ notification' = MoonrakerConnected
                     /\ calls'[Len(calls')].cmd = "GetObjectList"
                  \/ /\ DiscoverStep
                     /\ calls'[Len(calls')].cmd = "Subscribe"]_vars

\* the keys of the members of a snapshot
SnapshotKeys(members) == {try_from(members[i][1]).val : i \in 1..Len(members)}
\* the value the snapshot has for a key
SnapshotValue(members, key) ==
    members[CHOOSE i \in 1..Len(members) : try_from(members[i][1]).val = key][2]

RECURSIVE WithoutNulls(_)
\* a value without the null members of its objects
WithoutNulls(value) ==
    IF value.t # "obj" THEN value
    ELSE JObj([f \in {g \in DOMAIN value.v : value.v[g].t # "null"} |->
                 WithoutNulls(value.v[f])])

\* the step that ends a bootstrap whose subscribe response seeds the cache
SeededStep == SeedStep /\ ~SeedFailed(oneshot.value)

\* the snapshot of the response subscribe returns for
Snapshot == pointer(oneshot.value, "status")[1].members

\* C18 as claimed - Seed replaces the previous epoch: after the step that
\* ends a successful bootstrap the cache has exactly the keys of the
\* snapshot of the subscribe response, each with the value of the response.
SeedIsSnapshot ==
    [][SeededStep
         => current_status' = [k \in SnapshotKeys(Snapshot) |->
                                 SnapshotValue(Snapshot, k)]]_vars

\* C18 amended - after the step that ends a successful bootstrap the cache
\* has exactly the keys of the snapshot of the subscribe response, each with
\* the value of the response without its null members (the seed merges the
\* value into an empty object); nothing else is in the cache, and the state
\* is Subscribed.
SeedReplaces ==
    [][SeededStep
         => /\ current_status' = [k \in SnapshotKeys(Snapshot) |->
                                    WithoutNulls(SnapshotValue(Snapshot, k))]
            /\ initialized']_vars

\* C18 witness: a bootstrap was seeded from the snapshot whose extruder
\* reports time_offset as null; the cache has both keys, extruder with
\* every other field and without time_offset.
SeedReplacesWitness ==
    /\ initialized
    /\ pc = "recv"
    /\ notification = MoonrakerConnected
    /\ DOMAIN current_status = {Extruder, HeaterBed}
    /\ current_status[HeaterBed] = HeaterBedFields(0, 650, 600)
    /\ current_status[Extruder].v["temperature"] = JNum(2001)
    /\ DOMAIN current_status[Extruder].v
         = DOMAIN ExtruderFields(2100, 2001).v \ {"time_offset"}

-----------------------------------------------------------------------------
(* Export and process exit (specification SpecRun)                         *)

\* the step that is one tick of the periodic metrics update
ExportStep == exporter'.tick # exporter.tick

\* the keys of the cache whose value decodes
Decodable == {k \in DOMAIN current_status : decodes(k, current_status[k])}

\* C19 as claimed - Export isolation: in one export tick every key of the
\* cache whose value decodes is exported, whether or not the value of
\* another key fails to decode.
ExportIsolation ==
    [][ExportStep => exporter'.exported = Decodable]_vars

\* C20 as claimed - Process exit contract: as long as the session has not
\* ended, whatever closes, failed bootstraps, unparsable frames and topics
\* and undecodable cache values occur, the consumer is in its loop, the
\* periodic exporter has not returned and the process has not exited.
ProcessKeepsRunning ==
    session \in {"down", "up"} =>
        /\ pc \in {"recv", "get_object_list", "subscribe"}
        /\ ~exporter.returned
        /\ ~Exited

-----------------------------------------------------------------------------
(* The consumer loop and the frames of the transport (specification Spec)  *)

\* the step in which the consumer takes an event from the channel
TakeStep == Len(updates') < Len(updates)

\* C23 - Sequential consumption: a step changes the channel only by
\* appending one event at its end or by taking the event at its head; the
\* consumer takes an event only while it handles no other one (a bootstrap
\* in progress included), the event it takes is the one it handles next,
\* and the event being handled changes in no other step.
SequentialConsumption ==
    [][/\ updates' # updates =>
            \/ /\ Len(updates') = Len(updates) + 1
               /\ SubSeq(updates', 1, Len(updates)) = updates
            \/ updates' = Tail(updates)
       /\ TakeStep => pc = "recv" /\ notification' = Head(updates)
       /\ ~TakeStep => notification' = notification]_vars

\* C23 witness: a bootstrap waits for the subscribe response while two
\* events, a disconnect and the connect after it, wait in the channel.
SequentialConsumptionWitness ==
    /\ pc = "subscribe"
    /\ notification = MoonrakerConnected
    /\ updates = <<MoonrakerDisconnected, MoonrakerConnected>>

\* the methods the transport forwards
RecognizedMethods ==
    {"notify_proc_stat_update", "notify_status_update", "notify_klippy_ready",
     "notify_klippy_shutdown", "notify_klippy_disconnected"}

\* the notification frames of the peer whose method is not one of them, or
\* is not a string
UnrecognizedFrames ==
    {frame \in NotificationFrames :
        frame.method.t # "str" \/ frame.method.v \notin RecognizedMethods}

\* the step in which the session handles such a frame
UnrecognizedStep == \E frame \in UnrecognizedFrames : on_text(frame)

\* C25 - Unrecognized notification: the step in which the session handles a
\* notification frame with an unrecognized or non-string method puts nothing
\* on the channel, leaves the cache, the Subscribed flag and the pending
\* table as they were, and the session stays up.
UnrecognizedDropped ==
    [][UnrecognizedStep =>
          /\ updates' = updates
          /\ current_status' = current_status
          /\ initialized' = initialized
          /\ requests' = requests
          /\ session' = "up"]_vars

\* C25 witness: the session is up with a pending call while a bootstrap
\* waits for the subscribe response and an event waits in the channel, and
\* the peer has both kinds of such frames to send.
UnrecognizedDroppedWitness ==
    /\ session = "up"
    /\ DOMAIN requests # {}
    /\ pc = "subscribe"
    /\ updates # <<>>
    /\ Cardinality(UnrecognizedFrames) = 2

\* the step in which the consumer takes a device-lifecycle signal
LifecycleSignalStep ==
    /\ TakeStep
    /\ Head(updates).type \in {"KlippyReady", "KlippyShutdown", "KlippyDisconnected"}

\* C26 - Device-lifecycle signals: the step in which the consumer handles
\* klippy ready, shutdown or disconnected leaves the cache and the
\* Subscribed flag unchanged and issues no call; the consumer is back at
\* its loop.
LifecycleSignalsIgnored ==
    [][LifecycleSignalStep =>
          /\ current_status' = current_status
          /\ initialized' = initialized
          /\ calls' = calls
          /\ requests' = requests
          /\ pc' = "recv"]_vars

\* C26 witness: the consumer handled klippy shutdown last, the cache is
\* seeded and the Subscribed flag set.
LifecycleSignalsIgnoredWitness ==
    /\ notification = KlippyShutdown
    /\ initialized
    /\ DOMAIN current_status = {Extruder, HeaterBed}
    /\ pc = "recv"

\* C27 - Frame classification: a frame with a method is handled as a
\* notification only, also when it carries the id of a pending call (the
\* event is sent, the pending table and the awaited oneshot stay); a frame
\* without a method is handled as a response only (the call it answers is
\* resolved, nothing is sent); a frame that is not JSON changes nothing and
\* the session stays up.
FrameClassification ==
    [][/\ (\E id \in DOMAIN requests : on_text(IdNotificationFrame(id))) =>
            /\ updates' = Append(updates, KlippyReady)
            /\ requests' = requests
            /\ oneshot' = oneshot
       /\ (\E r \in wire : \E result \in ResultsFor(r) :
               on_text(Response(r.id, result)) /\ r.id \in DOMAIN requests) =>
            /\ updates' = updates
            /\ requests' # requests
       /\ on_text(NotJson) =>
            /\ updates' = updates
            /\ requests' = requests
            /\ oneshot' = oneshot
            /\ session' = "up"]_vars

\* C27 witness: a notification frame was handled while the discover call is
\* pending: its event is the last of the channel and the call still waits.
FrameClassificationWitness ==
    /\ pc = "get_object_list"
    /\ ~oneshot.full
    /\ oneshot.chan \in {requests[id] : id \in DOMAIN requests}
    /\ updates # <<>>
    /\ updates[Len(updates)] = KlippyReady

\* the step in which the session handles a response frame whose id has no
\* pending entry: an id answered before, an id never handed out, or no
\* integer id (-1, or no id at all)
UnknownIdStep ==
    \/ \E id \in {-1, 0, next_id} :
           id \notin DOMAIN requests /\ on_text(Response(id, Field("status", FullSnapshot)))
    \/ on_text(EmptyFrame)

\* C28 - Response with unknown id: the step leaves the pending table, the
\* awaited oneshot, the event channel and the cache unchanged, and the
\* session stays up.
UnknownIdIsNoOp ==
    [][UnknownIdStep =>
          /\ requests' = requests
          /\ oneshot' = oneshot
          /\ updates' = updates
          /\ current_status' = current_status
          /\ initialized' = initialized
          /\ session' = "up"]_vars

\* C28 witness: the session is up, the discover call (id 0) was answered
\* and the subscribe call (id 1) is pending: a repeat of the answer to 0
\* has no pending entry.
UnknownIdIsNoOpWitness ==
    /\ session = "up"
    /\ pc = "subscribe"
    /\ next_id = 2
    /\ DOMAIN requests = {1}
    /\ ~oneshot.full

\* the step in which the handling of an event returns an error: the seed of
\* a bootstrap fails, or a status patch is malformed or has a key that does
\* not parse
HandlerFails ==
    \/ SeedStep /\ SeedFailed(oneshot.value)
    \/ /\ TakeStep
       /\ Head(updates).type = "KlipperStatusData"
       /\ ~process_status_update(current_status, Head(updates).payload).ok

\* C30 - Consumer loop survives handler errors: the step in which the
\* handling of an event returns an error leaves the consumer at the receive
\* of its loop, with the events that wait in the channel still there, and
\* no step makes process return.
ConsumerSurvivesErrors ==
    [][/\ HandlerFails =>
            /\ pc' = "recv"
            /\ updates' = IF TakeStep THEN Tail(updates) ELSE updates
       /\ pc' # "returned"]_vars

\* C30 witness: the consumer handled a status patch with a key that does
\* not parse, is back at the receive of its loop, and the next event waits
\* in the channel.
ConsumerSurvivesErrorsWitness ==
    /\ notification.type = "KlipperStatusData"
    /\ ~process_status_update(NoStatus, notification.payload).ok
    /\ pc = "recv"
    /\ updates # <<>>

\* the step in which the consumer sends a Subscribe command
SubscribeIssued ==
    /\ Len(calls') > Len(calls)
    /\ calls'[Len(calls')].cmd = "Subscribe"

\* the topics of a discover response that parse to a key, in normalized form
ParsedTopics(response) ==
    LET objects == pointer(response, "objects")
    IN  IF objects = <<>> THEN {}
        ELSE {Normalize(topic) : topic \in {t \in Range(objects[1]) : try_from(t).ok}}

\* the step in which the session puts a Subscribe command on the wire
SubscribeSent == session = "up" /\ calls # <<>> /\ Head(calls).cmd = "Subscribe"
                 /\ calls' = Tail(calls)

\* C29 as claimed - Subscribe request: a Subscribe command is sent only in
\* the step in which get_object_list returns with the discover response,
\* one per such step; its objects are exactly the topics of that response
\* that parse, in normalized form; the request put on the wire asks for
\* exactly these objects, each with a null field filter.
SubscribeRequest ==
    [][/\ SubscribeIssued =>
            /\ DiscoverStep
            /\ oneshot.full
            /\ calls' = Append(calls, calls'[Len(calls')])
            /\ Range(calls'[Len(calls')].objects) = ParsedTopics(oneshot.value)
       /\ DiscoverStep => SubscribeIssued
       /\ SubscribeSent =>
            \E r \in wire' \ wire :
                /\ wire' = wire \cup {r}
                /\ r.method = "printer.objects.subscribe"
                /\ r.wanted = [o \in Range(Head(calls).objects) |-> JNull]]_vars

-----------------------------------------------------------------------------
(* The copy export takes of the cache (specification SpecSnapshot)         *)

\* C22 as claimed - Snapshot consistency: the copy of the cache an export
\* has taken equals the content the cache had at one instant between the
\* start and the end of the copy.
SnapshotConsistency ==
    [][(cloned.busy /\ ~cloned'.busy) => Copy \in cloned.contents]_vars

-----------------------------------------------------------------------------
(* The tasks of run and the exit of the process (specification SpecRun)    *)

\* the event channel is closed: its only sender went with the session
ChannelClosed == session = "closed"

\* the step in which process returns
ProcessReturns == pc # "returned" /\ pc' = "returned"

\* C21 - Fatal channel close: process returns only at its receive, when the
\* channel is closed and holds no event; at a closed and empty channel the
\* consumer does nothing but return; once process has returned join_next
\* can yield it, it yields the consumer task only then, and after join_next
\* has yielded a task the process has ended: no task takes a step.
FatalChannelClose ==
    [][/\ ProcessReturns => (ChannelClosed /\ updates = <<>> /\ pc = "recv")
       /\ (ChannelClosed /\ updates = <<>> /\ pc = "recv" /\ pc' # pc)
             => pc' = "returned"
       /\ pc' = "returned" => "consumer" \in Returned'
       /\ (joined' = "consumer" /\ joined # "consumer") => pc = "returned"
       /\ ~Exited]_vars

\* C21 witness: the session ended, the consumer found the channel closed
\* and empty and returned, and join_next yielded the consumer task.
FatalChannelCloseWitness ==
    /\ ChannelClosed
    /\ updates = <<>>
    /\ pc = "returned"
    /\ joined = "consumer"

\* C24 - Exporter is read-only: an export tick, whether it ends with Ok or
\* with an error, leaves the cache, the Subscribed flag and the pending
\* table unchanged.
ExportIsReadOnly ==
    [][ExportStep =>
          /\ current_status' = current_status
          /\ initialized' = initialized
          /\ requests' = requests]_vars

\* C24 witness: an export tick returned an error (a value of the cache does
\* not decode) after it exported another entry; the cache holds both
\* entries and the flag is set.
ExportIsReadOnlyWitness ==
    /\ exporter.tick = 1
    /\ exporter.returned
    /\ exporter.exported # {}
    /\ initialized
    /\ DOMAIN current_status = {Extruder, HeaterBed}

-----------------------------------------------------------------------------
(* Parsing of topics (specification SpecParse)                             *)

\* the words of a topic
Words(topic) == SelectSeq(topic, LAMBDA c : c # WS)

\* the topic is one the grammar recognizes: its first word is a kind, and a
\* second word follows where the kind requires an instance name
Recognized(topic) ==
    /\ Words(topic) # <<>>
    /\ Words(topic)[1] \in DefaultNamed \cup RequiredNamed \cup UnitKinds \cup {"fan"}
    /\ Words(topic)[1] \in RequiredNamed => Len(Words(topic)) >= 2

\* C31 - Parsing is total: for every topic parse has returned a key or the
\* error UnknownStatusUpdate carrying the topic; it returns the error
\* exactly for the topics that are not recognized: no word, a first word
\* that is no known kind, a kind that requires a name without one.
ParsingTotal ==
    probe.stage = "key" =>
        /\ probe.key.ok \in BOOLEAN
        /\ probe.key.ok <=> Recognized(probe.topic)
        /\ ~probe.key.ok => probe.key.val = probe.topic
        /\ probe.key.ok =>
              /\ probe.key.val[1] = StatusData[Words(probe.topic)[1]]
              /\ Len(probe.key.val) \in {1, 2}

\* C31 witness: the topic "temperature_sensor", a kind that requires an
\* instance name, was parsed and gave the error.
ParsingTotalWitness ==
    /\ probe.stage = "key"
    /\ probe.topic = <<"temperature_sensor">>
    /\ probe.key = Err(<<"temperature_sensor">>)

-----------------------------------------------------------------------------
(* Malformed status patches                                                *)

\* the step in which the consumer takes a status patch from the channel
TakesPatch == TakeStep /\ Head(updates).type = "KlipperStatusData"
\* the elements of a payload array that are objects
Objects(elements) == SelectSeq(elements, LAMBDA e : e.t = "obj")

\* C35 - Malformed status patch payload: a status patch whose payload is
\* no array is rejected with an error and leaves the cache unchanged; for a
\* payload that is an array, the elements that are no objects (the trailing
\* timestamp) are skipped: the cache and the result are those of the array
\* of its objects alone. The flag changes in neither case.
MalformedPatchPayload ==
    [][TakesPatch =>
          LET payload == Head(updates).payload
              result == process_status_update(current_status, payload)
          IN  /\ initialized' = initialized
              /\ current_status' = result.val
              /\ IF payload.t # "arr"
                 THEN ~result.ok /\ current_status' = current_status
                 ELSE result = process_status_update(current_status,
                                                     JArr(Objects(payload.v)))]_vars

\* a patch that is the status object alone was handled while the cache held
\* the seeded entries, and the cache still has no more than those
MalformedPatchPayloadWitness ==
    /\ pc = "recv"
    /\ notification.type = "KlipperStatusData"
    /\ notification.payload = BareStatus
    /\ initialized
    /\ current_status = process_status_update(NoStatus, JArr(<<PartialSnapshot>>)).val

-----------------------------------------------------------------------------
(* Process statistics (specification SpecStat)                             *)

\* the step in which the consumer takes a process-stat notification
TakesStat == TakeStep /\ Head(updates).type = "MoonrakerStatusData"

\* C36 - Process-stat notification replaces one entry: handling a
\* process-stat notification sets the entry of the service-status key to the
\* payload as a whole, whatever the entry held before, and leaves every
\* other entry of the cache and the flag unchanged.
ProcStatReplaces ==
    [][TakesStat =>
          /\ initialized' = initialized
          /\ DOMAIN current_status' = DOMAIN current_status \cup {MoonrakerStatus}
          /\ current_status'[MoonrakerStatus] = Head(updates).payload
          /\ \A k \in DOMAIN current_status \ {MoonrakerStatus} :
                 current_status'[k] = current_status[k]]_vars

\* a payload with a null member was handled and is the entry as it came,
\* next to an extruder entry that a status patch had changed before
ProcStatReplacesWitness ==
    /\ pc = "recv"
    /\ updates = <<>>
    /\ notification = MoonrakerStatusData(JObj(Field("cpu_temp", JNull)))
    /\ current_status[MoonrakerStatus] = JObj(Field("cpu_temp", JNull))
    /\ current_status[Extruder] = Temperature(2053)
    /\ initialized

-----------------------------------------------------------------------------
(* Calls in flight                                                         *)

\* C37 - At most one call in flight: the pending-call table never holds
\* more than one entry, and a call waits to be sent only while the table is
\* empty.
OneCallInFlight ==
    Cardinality(DOMAIN requests) + Len(calls) <= 1

\* the subscribe call of a bootstrap is the one entry of the table: the
\* entry of the list call before it was removed when its response came in
OneCallInFlightWitness ==
    /\ pc = "subscribe"
    /\ calls = <<>>
    /\ Cardinality(DOMAIN requests) = 1
    /\ \E i \in DOMAIN requests : requests[i] = oneshot.chan

-----------------------------------------------------------------------------
(* Seeding the cache                                                       *)

\* C34 as claimed - Seeding is all-or-nothing: when subscribe returns with
\* an error because the response has no status or a key of the snapshot does
\* not parse, the state is not Subscribed and the cache holds no entry.
SeedAllOrNothing ==
    [][(SeedStep /\ SeedFailed(oneshot.value))
         => /\ ~initialized'
            /\ current_status' = NoStatus]_vars

-----------------------------------------------------------------------------
(* Locks at suspension points (specification SpecLock)                     *)

\* the consumer is suspended: it awaits the next event or the response to a
\* call of the bootstrap
ConsumerSuspended == pc \in {"recv", "get_object_list", "subscribe"}
\* the exporter is suspended on the timer of its task: no copy is under way
ExporterSuspended == ~cloned.busy

\* C32 - No cache lock across a suspension point: whenever the consumer is
\* suspended it holds no entry guard of the cache, and whenever the exporter
\* is suspended on its timer it holds no read lock of a shard.
NoLockAcrossSuspension ==
    /\ ConsumerSuspended => guards.entry = {}
    /\ ExporterSuspended => guards.shards = {}

\* the consumer is back at the receive of its loop after a status patch
\* whose entries it merged under their guards, while the copy of export
\* holds the read lock of a shard
NoLockAcrossSuspensionWitness ==
    /\ pc = "recv"
    /\ notification.type = "KlipperStatusData"
    /\ initialized
    /\ current_status[Extruder] = Temperature(2053)
    /\ guards.entry = {}
    /\ guards.shards = {HeaterBed}
    /\ cloned.first = {Extruder, MoonrakerStatus}

-----------------------------------------------------------------------------
(* Backpressure (specification FairPressure)                               *)

\* C33 as claimed - No deadlock under backpressure: a send of the session
\* actor that waits for room in the channel completes in the end, and a
\* consumer that awaits the response to a call of its bootstrap receives it
\* in the end, however many notification frames the peer pushes before it
\* answers.
NoBackpressureDeadlock ==
    /\ (sending # <<>>) ~> (sending = <<>>)
    /\ (pc \in {"get_object_list", "subscribe"}) ~> (pc = "recv")

====
